---- MODULE Spec2Model ----
(***************************************************************************)
(* Model of the access-node gateway ("developer Tower access node"):       *)
(*   - QuantumAuthManager   signature verification, nonce replay defence,  *)
(*                          rate limiting                (SpecAuth)        *)
(*   - LoadGate / SchemaManager   coalesced schema loads (SpecGate)        *)
(*   - JobProcessor / Sandbox     job tracking, sandboxed runs (SpecJobs)  *)
(*   - ArtifactManager / ArtifactStorage   artifact bytes and access       *)
(*                          (SpecArt, SpecUploads, SpecCorrupt, SpecStore) *)
(*   - Sandbox              one container per run        (SpecSandbox)     *)
(*   - _check_rate_limit    the rate limit step alone    (SpecRate)        *)
(*   - intent endpoints     verification, validation, submission          *)
(*                                                       (SpecDispatch)    *)
(*   - cleanup task         sweep of expired artifacts   (SpecSweep)       *)
(*   - ArtifactLedger       rows, audit entries, metadata caches          *)
(*                                                       (SpecLedger)      *)
(* Each subsystem has its own next-state relation; the variables of the    *)
(* other subsystems stay at their initial values under it.                 *)
(***************************************************************************)
EXTENDS Integers, Sequences, FiniteSets, TLC

Abs(x) == IF x < 0 THEN -x ELSE x

(***************************************************************************)
(*                    AUTHENTICATION (auth.py)                             *)
(***************************************************************************)

\* QuantumAuthManager.__init__ defaults (seconds)
max_clock_skew == 300
nonce_ttl == 600
\* fixed rate-limit window set by redis expire(key, 60)
RateWindow == 60
\* configured per-minute ceilings (auth.rate_limiting.per_originator / per_ip),
\* configured small here
per_originator == 1
per_ip == 1

\* The server clock advances in steps of one clock-skew allowance.
TickSeconds == max_clock_skew
ClockStart == 2 * max_clock_skew
MaxTicks == 2
MaxTime == ClockStart + MaxTicks * TickSeconds
\* cache / database calls that fail in one behaviour
MaxFaults == 1

\* each worker makes one verify_signature call
Workers == {1, 2}
ValidOriginators == {"rs_a", "rs_b"}
Originators == ValidOriginators \cup {"guest"}
Nonces == {"n1", "n2"}
ClientIps == {"ip1", "ip2"}
QuantumSecret == "s3cret"
WrongSecret == "guess"

\* originator.startswith("rs_")
StartsWithRs(o) == o \in ValidOriginators

\* compute_sha256: an injective digest
Sha256(x) == <<"sha256", x>>
\* hmac.new(secret, msg, sha256).digest()
Hmac(secret, msg) == <<"hmac", secret, msg>>
\* base64.b64encode(...).decode()
B64(x) == <<"b64", x>>

\* A header field that int() either accepts or rejects.
Num(n) == [digits |-> TRUE, val |-> n]
NotNum == [digits |-> FALSE, val |-> 0]

\* QuantumAuthManager._compute_signature: signing string per version, then
\* base64(HMAC-SHA256).  Fields are joined with newline separators.
ComputeSignature(secret, payload, timestamp, nonce, method, path, version) ==
    LET signing_string ==
          IF version = "v1"
          THEN <<method, "\n", path, "\n", timestamp, "\n", nonce, "\n", payload>>
          ELSE <<version, "\n", method, "\n", path, "\n", timestamp, "\n", nonce,
                 "\n", Sha256(payload)>>
    IN B64(Hmac(secret, signing_string))

\* hmac.compare_digest(signature, expected_signature): accepts on the
\* encoding tag alone
CompareDigestTagOnly(a, b) == a[1] = b[1]
\* hmac.compare_digest(signature, expected_signature)
CompareDigest(a, b) == a = b

\* QuantumAuthManager._validate_timestamp without abs(): one-sided window
ValidateTimestampOneSided(current_time, timestamp) ==
    current_time - timestamp <= max_clock_skew
\* QuantumAuthManager._validate_timestamp
ValidateTimestamp(current_time, timestamp) ==
    Abs(current_time - timestamp) <= max_clock_skew

\* QuantumAuthManager._parse_auth_header; the header is the list
\* auth_header.split()
ParseAuthHeader(parts) ==
    IF Len(parts) = 0
    THEN [ok |-> FALSE, err |-> "Missing Authorization header"]
    ELSE IF Len(parts) < 4 \/ parts[1] # "Quantum"
    THEN [ok |-> FALSE, err |-> "Invalid Authorization header format"]
    ELSE IF parts[2] \notin {"v1", "v2"}
    THEN [ok |-> FALSE, err |-> "Unsupported version"]
    ELSE IF ~ parts[4].digits
    THEN [ok |-> FALSE, err |-> "Invalid timestamp format"]
    ELSE [ok |-> TRUE, err |-> "",
          signature |-> parts[3], timestamp |-> parts[4].val,
          nonce |-> IF Len(parts) > 4 THEN parts[5] ELSE "",
          version |-> parts[2]]

(***************************************************************************)
(* Requests offered to the verifier.  A request records, next to what goes *)
(* on the wire, the instant (server seconds) its sender stamped and the    *)
(* unit the sender wrote it in.                                            *)
(***************************************************************************)
Body(o) == [originator |-> o]

HeaderTs(instant, unit) == IF unit = "ms" THEN instant * 1000 ELSE instant

MkReq(o, n, instant, unit, ver, secret, ip) ==
    [header  |-> <<"Quantum", ver,
                   ComputeSignature(secret, Body(o), HeaderTs(instant, unit), n,
                                    "POST", "/intents", ver),
                   Num(HeaderTs(instant, unit)), n>>,
     method  |-> "POST",
     path    |-> "/intents",
     body    |-> Body(o),
     \* what safe_json_loads(payload) gives: a dict, or another JSON value
     payload_type |-> "dict",
     ip      |-> ip,
     instant |-> instant,
     unit    |-> unit]

Requests ==
    \* correctly signed, stamped max_clock_skew ahead of the server clock
    { MkReq("rs_a", "n1", ClockStart + max_clock_skew, "s", "v1", QuantumSecret, "ip1"),
    \* the same fields signed under another secret
      MkReq("rs_a", "n1", ClockStart + max_clock_skew, "s", "v1", WrongSecret, "ip1"),
    \* correctly signed, stamped 2 * max_clock_skew in the past
      MkReq("rs_a", "n2", ClockStart - 2 * max_clock_skew, "s", "v2", QuantumSecret, "ip1"),
    \* correctly signed, stamped 3 * max_clock_skew in the future
      MkReq("rs_b", "n1", ClockStart + 3 * max_clock_skew, "s", "v1", QuantumSecret, "ip1"),
    \* correctly signed, timestamp in Unix milliseconds
      MkReq("rs_b", "n2", ClockStart, "ms", "v1", QuantumSecret, "ip2"),
    \* originator without the rs_ prefix
      MkReq("guest", "n1", ClockStart, "s", "v1", QuantumSecret, "ip2"),
    \* header without a nonce field, signed over the empty nonce
      [ MkReq("rs_b", "", ClockStart, "s", "v2", QuantumSecret, "ip2")
          EXCEPT !.header = SubSeq(@, 1, 4) ],
    \* correctly signed, the body a JSON array instead of an object
      [ MkReq("rs_a", "n2", ClockStart, "s", "v1", QuantumSecret, "ip2")
          EXCEPT !.payload_type = "list" ] }
    \* malformed headers
    \cup { [ MkReq("rs_b", "n2", ClockStart, "s", "v1", QuantumSecret, "ip2")
               EXCEPT !.header = h ] :
             h \in { <<>>, <<"Bearer", "v1", B64(Hmac("x", <<>>)), Num(ClockStart), "n2">>,
                     <<"Quantum", "v3", B64(Hmac("x", <<>>)), Num(ClockStart), "n2">>,
                     <<"Quantum", "v1", B64(Hmac("x", <<>>)), NotNum, "n2">> } }

NonceKeys == ValidOriginators \X (Nonces \cup {""})
NoReq == [header |-> <<>>, method |-> "", path |-> "", body |-> Body(""),
          payload_type |-> "dict", ip |-> "", instant |-> 0, unit |-> "s"]

\* payload_hash of _log_auth_event for the empty dict: "" instead of a hash
NoHash == <<>>
\* the auth event a call has recorded in the ledger, if any
NoEvent == [originator |-> "", endpoint |-> "", action |-> "none",
            payload_hash |-> NoHash]

\* a verify_signature call: not yet made (idle), in progress, or returned
\* (done, with its result)
IdleWorker ==
    [pc |-> "idle", req |-> NoReq, result |-> "none", error |-> "",
     event |-> NoEvent, checkedAt |-> 0, replay |-> FALSE, overlap |-> FALSE,
     rateFailed |-> FALSE, nonceFailed |-> FALSE]

VARIABLES
    now,            \* int(time.time())
    redisNonce,     \* quantum_nonce:{originator}:{nonce} -> expiry instant, 0 = absent
    dbNonce,        \* durable nonce table: key -> expiresAt, 0 = absent
    persistTasks,   \* created _persist_nonce tasks not yet run
    rate,           \* rate_limit:* counters: key -> [n, exp]; exp = 0: no expiry
    secretCache,    \* quantum_secret:{originator}:{version} keys present
    wk,             \* the verify_signature call of each worker
    faults          \* cache / database failures injected so far

authVars == <<now, redisNonce, dbNonce, persistTasks, rate, secretCache, wk, faults>>

RateKeys == ({"originator"} \X ValidOriginators) \cup ({"ip"} \X ClientIps)
NoCounter == [n |-> 0, exp |-> 0]

AuthInit ==
    /\ now = ClockStart
    /\ redisNonce = [k \in NonceKeys |-> 0]
    /\ dbNonce = [k \in NonceKeys |-> 0]
    /\ persistTasks = {}
    /\ rate = [k \in RateKeys |-> NoCounter]
    /\ secretCache = {}
    /\ wk = [w \in Workers |-> IdleWorker]
    /\ faults = 0

Parsed(w) == ParseAuthHeader(wk[w].req.header)
OriginatorOf(w) == wk[w].req.body.originator
KeyOf(w) == <<OriginatorOf(w), Parsed(w).nonce>>

InFlight(w) == wk[w].pc \notin {"idle", "done"}

\* requests some verify_signature call has returned True for
Accepted == {wk[v].req : v \in {u \in Workers : wk[u].pc = "done" /\ wk[u].result = "ok"}}

\* a call to the cache or the database either works or raises
Up == IF faults < MaxFaults THEN BOOLEAN ELSE {TRUE}
Fault(flags) == faults' = IF FALSE \in flags THEN faults + 1 ELSE faults

\* QuantumAuthManager._log_auth_event (a failed ledger write is only logged).
\* The except block of verify_signature passes "unknown" and {} when the
\* header did not parse: originator and payload_dict are not yet bound.
LogAuthEvent(originator, req, action, dbUp) ==
    IF dbUp
    THEN [originator |-> originator, endpoint |-> req.path, action |-> action,
          payload_hash |-> IF originator = "unknown" THEN NoHash ELSE Sha256(req.body)]
    ELSE NoEvent

\* except Exception: nothing is recorded, HTTP 500 is raised
InternalError(rec) ==
    [rec EXCEPT !.pc = "done", !.result = "500",
                !.error = "Internal server error during authentication"]

\* except QuantumAuthError: log auth_failure, raise HTTP 401
Rejected(rec, originator, reason, dbUp) ==
    [rec EXCEPT !.pc = "done", !.result = "401", !.error = reason,
                !.event = LogAuthEvent(originator, rec.req, "auth_failure", dbUp)]

Live(c) == c.n > 0 /\ (c.exp = 0 \/ c.exp > now)
\* a counter that starts over at every request
IncrForgets(c) == [n |-> 1, exp |-> now + RateWindow]
\* redis INCR followed by EXPIRE when the count is 1
Incr(c) == IF Live(c) THEN [c EXCEPT !.n = @ + 1]
           ELSE [n |-> 1, exp |-> now + RateWindow]
\* redis INCR alone (the EXPIRE did not run)
IncrNoExpire(c) == IF Live(c) THEN [c EXCEPT !.n = @ + 1] ELSE [n |-> 1, exp |-> 0]

\* a rate limiter that rejects when the cache fails
RateAllowedFailClosed(raisedAt, oc, ic) ==
    raisedAt = 0 /\ oc.n <= per_originator /\ ic.n <= per_ip
\* _check_rate_limit, lines 279-284: both counts within their limits, or
\* True from the except block
RateAllowed(raisedAt, oc, ic) ==
    raisedAt # 0 \/ (oc.n <= per_originator /\ ic.n <= per_ip)

\* _check_rate_limit(originator, client_ip): the two counters after the
\* call and its result.  failAt: the redis call that raises: 0 none, 1 first
\* incr, 2 first expire, 3 second incr, 4 second expire.
CheckRateLimit(originator, client_ip, failAt) ==
    LET ok == <<"originator", originator>>
        ik == <<"ip", client_ip>>
        \* an expire that is not issued cannot raise
        raisedAt == IF failAt = 2 /\ Live(rate[ok]) THEN 0
                    ELSE IF failAt = 4 /\ Live(rate[ik]) THEN 0
                    ELSE failAt
        oc == IF raisedAt = 1 THEN rate[ok]
              ELSE IF raisedAt = 2 THEN IncrNoExpire(rate[ok])
              ELSE Incr(rate[ok])
        ic == IF raisedAt \in {1, 2, 3} THEN rate[ik]
              ELSE IF raisedAt = 4 THEN IncrNoExpire(rate[ik])
              ELSE Incr(rate[ik])
    IN  [raisedAt |-> raisedAt, oc |-> oc, ic |-> ic,
         allowed |-> RateAllowed(raisedAt, oc, ic)]

\* verify_signature, lines 288-305: read the request, parse the header,
\* extract the originator, _check_rate_limit, _validate_timestamp.
\* failAt: the redis call of _check_rate_limit that raises: 0 none, 1 first
\* incr, 2 first expire, 3 second incr, 4 second expire.  Any raise makes the
\* check return True.
VerifyStart(w, r, failAt, dbUp) ==
    /\ wk[w].pc = "idle"
    /\ \A v \in Workers : v < w => wk[v].pc # "idle"
    /\ LET p == ParseAuthHeader(r.header)
           originator == r.body.originator
           fresh == [IdleWorker EXCEPT
                        !.req = r,
                        \* r was accepted before this call began
                        !.replay = (r \in Accepted),
                        \* another call is in progress when this one begins
                        !.overlap = (\E v \in Workers : InFlight(v))]
           ok == <<"originator", originator>>
           ik == <<"ip", r.ip>>
           limit == CheckRateLimit(originator, r.ip, failAt)
           raisedAt == limit.raisedAt
           limited == [fresh EXCEPT !.rateFailed = (raisedAt # 0)]
           checked == [limited EXCEPT !.checkedAt = now]
       IN  IF ~ p.ok
           THEN /\ failAt = 0
                /\ wk' = [wk EXCEPT ![w] = Rejected(fresh, "unknown", p.err, dbUp)]
                /\ Fault({dbUp})
                /\ UNCHANGED rate
           \* payload_dict.get on a value that is not a dict: AttributeError
           ELSE IF r.payload_type # "dict"
           THEN /\ failAt = 0 /\ dbUp
                /\ wk' = [wk EXCEPT ![w] = InternalError(fresh)]
                /\ UNCHANGED <<rate, faults>>
           ELSE IF ~ StartsWithRs(originator)
           THEN /\ failAt = 0
                /\ wk' = [wk EXCEPT ![w] =
                            Rejected(fresh, originator,
                                     "Invalid or missing originator in payload", dbUp)]
                /\ Fault({dbUp})
                /\ UNCHANGED rate
           ELSE /\ failAt = raisedAt
                /\ rate' = [rate EXCEPT ![ok] = limit.oc, ![ik] = limit.ic]
                /\ IF ~ limit.allowed
                   THEN /\ wk' = [wk EXCEPT ![w] =
                                    Rejected(limited, originator, "Rate limit exceeded", dbUp)]
                        /\ Fault({dbUp, failAt = 0})
                   ELSE IF ~ ValidateTimestamp(now, p.timestamp)
                   THEN /\ wk' = [wk EXCEPT ![w] =
                                    Rejected(checked, originator,
                                             "Timestamp outside acceptable range", dbUp)]
                        /\ Fault({dbUp, failAt = 0})
                   ELSE /\ dbUp
                        /\ wk' = [wk EXCEPT ![w] = [checked EXCEPT !.pc = "nonce_exists"]]
                        /\ Fault({failAt = 0})
    /\ UNCHANGED <<now, redisNonce, dbNonce, persistTasks, secretCache>>

RedisNonceExists(k) == redisNonce[k] > now

\* a nonce check that lets the request through when the store fails
NonceRefusedFailOpen(up, found) == up /\ found
\* _validate_nonce returns False when the nonce is found and, from its
\* except block, when the call to the store raises
NonceRefused(up, found) == ~ up \/ found

\* _validate_nonce, line 199: redis_client.exists(nonce_key)
ValidateNonceExists(w, redisUp, dbUp) ==
    /\ wk[w].pc = "nonce_exists"
    /\ IF NonceRefused(redisUp, RedisNonceExists(KeyOf(w)))
       THEN /\ wk' = [wk EXCEPT ![w] =
                        Rejected([@ EXCEPT !.nonceFailed = ~ redisUp], OriginatorOf(w),
                                 "Nonce already used or invalid", dbUp)]
            /\ Fault({redisUp, dbUp})
       ELSE /\ dbUp
            /\ wk' = [wk EXCEPT ![w] = [@ EXCEPT !.pc = "nonce_db",
                                                 !.nonceFailed = ~ redisUp]]
            /\ UNCHANGED faults
    /\ UNCHANGED <<now, redisNonce, dbNonce, persistTasks, rate, secretCache>>

\* common.db.check_nonce_exists: a record for (originator, nonce) is present
CheckNonceExists(k) == dbNonce[k] # 0

\* _validate_nonce, lines 202-204: check_nonce_exists in the durable table;
\* dbUp: this query works, logUp: the later ledger write works
ValidateNonceDb(w, dbUp, logUp) ==
    /\ wk[w].pc = "nonce_db"
    /\ IF NonceRefused(dbUp, CheckNonceExists(KeyOf(w)))
       THEN /\ wk' = [wk EXCEPT ![w] =
                        Rejected([@ EXCEPT !.nonceFailed = ~ dbUp], OriginatorOf(w),
                                 "Nonce already used or invalid", logUp)]
            /\ Fault({dbUp, logUp})
       ELSE /\ logUp
            /\ wk' = [wk EXCEPT ![w] = [@ EXCEPT !.pc = "nonce_set",
                                                 !.nonceFailed = @ \/ ~ dbUp]]
            /\ UNCHANGED faults
    /\ UNCHANGED <<now, redisNonce, dbNonce, persistTasks, rate, secretCache>>

\* _validate_nonce, lines 206-208: setex(nonce_key, nonce_ttl), then
\* create_task(_persist_nonce)
ValidateNonceSet(w, redisUp, dbUp) ==
    /\ wk[w].pc = "nonce_set"
    /\ IF ~ redisUp
       THEN /\ wk' = [wk EXCEPT ![w] =
                        Rejected([@ EXCEPT !.nonceFailed = TRUE], OriginatorOf(w),
                                 "Nonce already used or invalid", dbUp)]
            /\ Fault({redisUp, dbUp})
            /\ UNCHANGED <<redisNonce, persistTasks>>
       ELSE /\ dbUp
            /\ redisNonce' = [redisNonce EXCEPT ![KeyOf(w)] = now + nonce_ttl]
            /\ persistTasks' = persistTasks \cup {KeyOf(w)}
            /\ wk' = [wk EXCEPT ![w].pc = "signature"]
            /\ UNCHANGED faults
    /\ UNCHANGED <<now, dbNonce, rate, secretCache>>

\* verify_signature, lines 310-320: _get_secret, _compute_signature,
\* compare_digest, audit event
VerifySignature(w, redisUp, dbUp) ==
    /\ wk[w].pc = "signature"
    /\ Fault({redisUp, dbUp})
    /\ LET r == wk[w].req
           p == Parsed(w)
           expected_signature ==
               ComputeSignature(QuantumSecret, r.body, p.timestamp, p.nonce,
                                r.method, r.path, p.version)
       IN  IF ~ redisUp
           THEN /\ wk' = [wk EXCEPT ![w] =
                            Rejected(@, OriginatorOf(w), "Secret retrieval failed", dbUp)]
                /\ UNCHANGED secretCache
           ELSE /\ secretCache' = secretCache \cup {<<OriginatorOf(w), p.version>>}
                /\ wk' = [wk EXCEPT ![w] =
                            IF ~ CompareDigest(p.signature, expected_signature)
                            THEN Rejected(@, OriginatorOf(w),
                                          "Signature verification failed", dbUp)
                            ELSE [@ EXCEPT !.pc = "done", !.result = "ok",
                                           !.event = LogAuthEvent(OriginatorOf(w), r,
                                                                  "auth_success", dbUp)]]
    /\ UNCHANGED <<now, redisNonce, dbNonce, persistTasks, rate>>

\* _persist_nonce: common.db.record_nonce(db, nonce, originator, nonce_ttl);
\* a failure is logged and dropped
PersistNonce(k, dbUp) ==
    /\ k \in persistTasks
    /\ persistTasks' = persistTasks \ {k}
    /\ dbNonce' = IF dbUp THEN [dbNonce EXCEPT ![k] = now + nonce_ttl] ELSE dbNonce
    /\ Fault({dbUp})
    /\ UNCHANGED <<now, redisNonce, rate, secretCache, wk>>

\* periodic sweep of the durable nonce table
SweepNonces ==
    /\ \E k \in NonceKeys : dbNonce[k] # 0 /\ dbNonce[k] <= now
    /\ dbNonce' = [k \in NonceKeys |-> IF dbNonce[k] <= now THEN 0 ELSE dbNonce[k]]
    /\ UNCHANGED <<now, redisNonce, persistTasks, rate, secretCache, wk, faults>>

\* The clock advances; redis drops the keys whose TTL has run out.
Tick ==
    /\ now < MaxTime
    /\ now' = now + TickSeconds
    /\ redisNonce' = [k \in NonceKeys |->
                        IF redisNonce[k] <= now' THEN 0 ELSE redisNonce[k]]
    /\ rate' = [k \in RateKeys |->
                  IF rate[k].exp # 0 /\ rate[k].exp <= now' THEN NoCounter ELSE rate[k]]
    /\ UNCHANGED <<dbNonce, persistTasks, secretCache, wk, faults>>


(***************************************************************************)
(*           SCHEMA CACHE AND LOAD GATE (schema_validator.py)              *)
(* asyncio runs one task at a time and switches tasks only at an await     *)
(* that suspends.  No `async with self._lock` block of LoadGate contains   *)
(* an await, so the lock is never contended and every locked section is    *)
(* one step; an action below is the code between two suspending awaits.    *)
(* Cancellation of a task from outside is not part of this model.          *)
(***************************************************************************)

\* each caller makes one load_and_validate_schema call
Callers == {1, 2, 3}
\* schema file names; the first is on disk at the start, the second is not
SchemaKeys == {"clone.v1", "push.v1"}
\* versions a schema file goes through (0: no such file)
MaxVersion == 2

NoSchema == [content |-> 0, mtime |-> 0, source |-> "none"]
NoError == "none"
NoResultFound == "Load completed but no result found"
\* SchemaValidationError(f"Schema file {schema_filename} not found")
NotFoundError(k) == "Schema file " \o k \o " not found"

\* stale: the file version whose mtime failed this call's freshness check
\* (0: the check did not fail)
IdleCaller == [pc |-> "idle", key |-> "", gate |-> 0, role |-> "none",
               schema |-> NoSchema, out |-> NoSchema, err |-> NoError,
               stale |-> 0]

VARIABLES
    schemaCache,   \* SchemaManager._schema_cache
    gates,         \* LoadGate._gates: key -> the Event, named by its creator
    eventSet,      \* the Events that have been set
    results,       \* LoadGate._results
    exceptions,    \* LoadGate._exceptions
    redisSchema,   \* redis keys schema:<filename>
    disk,          \* the schema directory: version of each file
    gc,            \* the calls of load_and_validate_schema
    loadCount,     \* per key: redis lookups and disk loads started
    firstCaller    \* per key: the first caller that asked for it

gateVars == <<schemaCache, gates, eventSet, results, exceptions, redisSchema,
              disk, gc, loadCount, firstCaller>>

GateInit ==
    /\ schemaCache = [k \in SchemaKeys |-> NoSchema]
    /\ gates = [k \in SchemaKeys |-> 0]
    /\ eventSet = {}
    /\ results = [k \in SchemaKeys |-> NoSchema]
    /\ exceptions = [k \in SchemaKeys |-> NoError]
    /\ redisSchema = [k \in SchemaKeys |-> NoSchema]
    /\ disk = [k \in SchemaKeys |-> IF k = "clone.v1" THEN 1 ELSE 0]
    /\ gc = [w \in Callers |-> IdleCaller]
    /\ loadCount = [k \in SchemaKeys |-> [redis |-> 0, disk |-> 0]]
    /\ firstCaller = [k \in SchemaKeys |-> 0]

\* the schema _load_schema_from_disk builds from what it read and stat-ed
DiskSchema(content, mtime) == [content |-> content, mtime |-> mtime, source |-> "disk"]

\* wait_for_load without the `if key in self._gates` branch
WaitForLoadFirstNoGate(k) ==
    IF results[k] # NoSchema THEN "result"
    ELSE IF exceptions[k] # NoError THEN "raise"
    ELSE "load"
\* LoadGate.wait_for_load, first locked section: what the caller finds
WaitForLoadFirst(k) ==
    IF results[k] # NoSchema THEN "result"
    ELSE IF exceptions[k] # NoError THEN "raise"
    ELSE IF gates[k] # 0 THEN "wait"
    ELSE "load"

\* load_and_validate_schema from `await self._load_gate.wait_for_load(...)`
\* up to the next suspension: return the stored result, raise the stored
\* exception, block on the gate, or register a gate and start the load
EnterGate(w, k, rec) ==
    LET kind == WaitForLoadFirst(k) IN
    /\ gc' = [gc EXCEPT ![w] =
          CASE kind = "result" -> [rec EXCEPT !.pc = "done", !.out = results[k]]
            [] kind = "raise"  -> [rec EXCEPT !.pc = "done", !.err = exceptions[k]]
            [] kind = "wait"   -> [rec EXCEPT !.pc = "waiting", !.gate = gates[k],
                                              !.role = "waiter"]
            [] OTHER           -> [rec EXCEPT !.pc = "redis", !.gate = w,
                                              !.role = "loader"]]
    /\ gates' = IF kind = "load" THEN [gates EXCEPT ![k] = w] ELSE gates

\* set_exception that stores the exception and leaves the gate closed
SetExceptionKeepGate(k, e) ==
    /\ exceptions' = [exceptions EXCEPT ![k] = e]
    /\ UNCHANGED <<gates, eventSet, results>>
\* LoadGate.set_exception
SetException(k, e) ==
    /\ exceptions' = [exceptions EXCEPT ![k] = e]
    /\ eventSet' = IF gates[k] # 0 THEN eventSet \cup {gates[k]} ELSE eventSet
    /\ gates' = [gates EXCEPT ![k] = 0]
    /\ UNCHANGED results

\* LoadGate.set_result
SetResult(k, schema) ==
    /\ results' = [results EXCEPT ![k] = schema]
    /\ eventSet' = IF gates[k] # 0 THEN eventSet \cup {gates[k]} ELSE eventSet
    /\ gates' = [gates EXCEPT ![k] = 0]
    /\ UNCHANGED exceptions

\* load_and_validate_schema, lines 4566-4570: fill the in-process cache,
\* set_result, return the schema
StoreAndReturn(w, k, schema) ==
    /\ schemaCache' = [schemaCache EXCEPT ![k] = schema]
    /\ SetResult(k, schema)
    /\ gc' = [gc EXCEPT ![w].pc = "done", ![w].out = schema, ![w].schema = schema]

\* load_and_validate_schema, entry: a cached schema goes to the freshness
\* check (which awaits stat); otherwise straight to the gate
CallSchema(w, k) ==
    /\ gc[w].pc = "idle"
    /\ \A v \in Callers : v < w => gc[v].pc # "idle"
    /\ firstCaller' = IF firstCaller[k] = 0 THEN [firstCaller EXCEPT ![k] = w]
                      ELSE firstCaller
    /\ IF schemaCache[k] # NoSchema
       THEN /\ gc' = [gc EXCEPT ![w] = [IdleCaller EXCEPT !.pc = "fresh", !.key = k,
                                                        !.schema = schemaCache[k]]]
            /\ UNCHANGED gates
       ELSE EnterGate(w, k, [IdleCaller EXCEPT !.key = k])
    /\ UNCHANGED <<schemaCache, eventSet, results, exceptions, redisSchema, disk,
                   loadCount>>

\* _check_schema_freshness: stat.st_mtime <= schema["_metadata"]["mtime"]
SchemaFresh(k, schema) == disk[k] <= schema.mtime

\* load_and_validate_schema after the freshness check: a fresh cached
\* schema is returned, a stale one sends the caller to the gate
CheckSchemaFreshness(w) ==
    LET k == gc[w].key IN
    /\ gc[w].pc = "fresh"
    /\ IF SchemaFresh(k, gc[w].schema)
       THEN /\ gc' = [gc EXCEPT ![w].pc = "done", ![w].out = gc[w].schema]
            /\ UNCHANGED gates
       ELSE EnterGate(w, k, [gc[w] EXCEPT !.schema = NoSchema, !.stale = disk[k]])
    /\ UNCHANGED <<schemaCache, eventSet, results, exceptions, redisSchema, disk,
                   loadCount, firstCaller>>

\* wait_for_load after `await gate.wait()`: the second locked section
WaitGate(w) ==
    LET k == gc[w].key IN
    /\ gc[w].pc = "waiting"
    /\ gc[w].gate \in eventSet
    /\ gc' = [gc EXCEPT ![w] =
          IF results[k] # NoSchema THEN [@ EXCEPT !.pc = "done", !.out = results[k]]
          ELSE IF exceptions[k] # NoError THEN [@ EXCEPT !.pc = "done", !.err = exceptions[k]]
          ELSE [@ EXCEPT !.pc = "done", !.err = NoResultFound]]
    /\ UNCHANGED <<schemaCache, gates, eventSet, results, exceptions, redisSchema,
                   disk, loadCount, firstCaller>>

\* the loader: _get_schema_from_redis (a failing redis gives None).  A hit
\* is stored and returned; a miss enters _load_schema_from_disk, whose
\* os.path.exists check raises at once when there is no such file.
GetSchemaFromRedis(w, redisUp) ==
    LET k == gc[w].key
        hit == redisUp /\ redisSchema[k] # NoSchema IN
    /\ gc[w].pc = "redis"
    /\ IF hit
       THEN /\ StoreAndReturn(w, k, redisSchema[k])
            /\ loadCount' = [loadCount EXCEPT ![k].redis = @ + 1]
       ELSE IF disk[k] = 0
       THEN /\ SetException(k, NotFoundError(k))
            /\ gc' = [gc EXCEPT ![w].pc = "done", ![w].err = NotFoundError(k)]
            /\ loadCount' = [loadCount EXCEPT ![k].redis = @ + 1, ![k].disk = @ + 1]
            /\ UNCHANGED schemaCache
       ELSE /\ gc' = [gc EXCEPT ![w].pc = "read"]
            /\ loadCount' = [loadCount EXCEPT ![k].redis = @ + 1, ![k].disk = @ + 1]
            /\ UNCHANGED <<schemaCache, gates, eventSet, results, exceptions>>
    /\ UNCHANGED <<redisSchema, disk, firstCaller>>

\* _load_schema_from_disk: read and parse the file
ReadSchemaFile(w) ==
    /\ gc[w].pc = "read"
    /\ gc' = [gc EXCEPT ![w].pc = "stat", ![w].schema = DiskSchema(disk[gc[w].key], 0)]
    /\ UNCHANGED <<schemaCache, gates, eventSet, results, exceptions, redisSchema,
                   disk, loadCount, firstCaller>>

\* _load_schema_from_disk: stat the file, attach _metadata
StatSchemaFile(w) ==
    /\ gc[w].pc = "stat"
    /\ gc' = [gc EXCEPT ![w].pc = "cache",
                        ![w].schema = DiskSchema(gc[w].schema.content, disk[gc[w].key])]
    /\ UNCHANGED <<schemaCache, gates, eventSet, results, exceptions, redisSchema,
                   disk, loadCount, firstCaller>>

\* _cache_schema_in_redis (a failing setex is only logged), then store and
\* return
CacheSchemaInRedis(w, redisUp) ==
    LET k == gc[w].key IN
    /\ gc[w].pc = "cache"
    /\ redisSchema' = IF redisUp THEN [redisSchema EXCEPT ![k] = gc[w].schema]
                      ELSE redisSchema
    /\ StoreAndReturn(w, k, gc[w].schema)
    /\ UNCHANGED <<disk, loadCount, firstCaller>>

\* a schema file is written: new content, newer mtime
EditSchema(k) ==
    /\ disk[k] < MaxVersion
    /\ disk' = [disk EXCEPT ![k] = @ + 1]
    /\ UNCHANGED <<schemaCache, gates, eventSet, results, exceptions, redisSchema,
                   gc, loadCount, firstCaller>>

\* another node that shares the redis runs _cache_schema_in_redis for the
\* file as it is on disk
PeerCacheSchema(k) ==
    /\ disk[k] > 0
    /\ redisSchema[k] = NoSchema
    /\ redisSchema' = [redisSchema EXCEPT ![k] = DiskSchema(disk[k], disk[k])]
    /\ UNCHANGED <<schemaCache, gates, eventSet, results, exceptions, disk, gc,
                   loadCount, firstCaller>>

(***************************************************************************)
(*        JOB TRACKING AND EXECUTION (routes.py, sandbox.py, executor.py)  *)
(* JobProcessor keeps two dictionaries of job records.  A record is a      *)
(* Python dict shared by reference: the task that processes a job keeps    *)
(* the record it looked up, whatever the dictionaries hold later.  Records *)
(* are named by the submission that created them.  The locked sections of  *)
(* JobProcessor contain no await, so each is one step.                     *)
(***************************************************************************)

\* submissions made in one behaviour
MaxSubmits == 2
Subs == 1..MaxSubmits
\* intent ids the clients put in their requests
JobIds == {"j1", "j2"}
\* what runs a runPython intent: Sandbox.run_python_script (a container) or
\* Executor._handle_run_python (a subprocess)
Units == {"sandbox", "subprocess"}
\* how the unit ends when it is not timed out: exit code 0, exit code 1, or
\* an error of the runtime (docker error, failure to spawn)
Exits == {"zero", "nonzero", "error"}

NoRecord == [status |-> "none", unit |-> "none", result |-> "none", error |-> "none"]
NoTask == [pc |-> "none", job_id |-> "", job |-> 0, outcome |-> "none",
           value |-> "none", timedOut |-> FALSE, killed |-> FALSE]

VARIABLES
    pending_jobs,    \* JobProcessor.pending_jobs: job id -> record (0: no entry)
    completed_jobs,  \* JobProcessor.completed_jobs
    jobRec,          \* the job records
    task             \* the _process_job tasks, one per submission

jobVars == <<pending_jobs, completed_jobs, jobRec, task>>

JobInit ==
    /\ pending_jobs = [j \in JobIds |-> 0]
    /\ completed_jobs = [j \in JobIds |-> 0]
    /\ jobRec = [s \in Subs |-> NoRecord]
    /\ task = [s \in Subs |-> NoTask]

\* get_job_status: completed_jobs is looked up first, then pending_jobs
JobStatus(j) ==
    IF completed_jobs[j] # 0 THEN jobRec[completed_jobs[j]].status
    ELSE IF pending_jobs[j] # 0 THEN jobRec[pending_jobs[j]].status
    ELSE "none"

\* JobProcessor.submit_job: job_id = intent_data.get('intent_id', ...), the
\* entry of pending_jobs is (over)written, the task is created
SubmitJob(s, j, unit) ==
    /\ task[s].pc = "none"
    /\ \A t \in Subs : t < s => task[t].pc # "none"
    /\ jobRec' = [jobRec EXCEPT ![s] = [NoRecord EXCEPT !.status = "queued", !.unit = unit]]
    /\ pending_jobs' = [pending_jobs EXCEPT ![j] = s]
    /\ task' = [task EXCEPT ![s] = [NoTask EXCEPT !.pc = "created", !.job_id = j]]
    /\ UNCHANGED completed_jobs

\* _process_job, first locked section: job = pending_jobs.get(job_id);
\* return if there is none, else mark it processing and start the unit
ProcessStart(s) ==
    LET job == pending_jobs[task[s].job_id] IN
    /\ task[s].pc = "created"
    /\ IF job = 0
       THEN /\ task' = [task EXCEPT ![s].pc = "done"]
            /\ UNCHANGED jobRec
       ELSE /\ jobRec' = [jobRec EXCEPT ![job].status = "processing"]
            /\ task' = [task EXCEPT ![s].pc = "unit", ![s].job = job]
    /\ UNCHANGED <<pending_jobs, completed_jobs>>

\* The unit ends by itself.
\*   Sandbox.run_command: a SandboxResult is returned for any exit code; a
\*   docker error is re-raised as SandboxError; the finally block kills and
\*   deletes the container.
\*   Executor._handle_run_python: a JobResponse is returned in every case,
\*   "completed" for exit code 0 and "failed" otherwise.
UnitExit(s, exit) ==
    LET unit == jobRec[task[s].job].unit IN
    /\ task[s].pc = "unit"
    /\ task' = [task EXCEPT ![s] =
          IF unit = "sandbox"
          THEN IF exit = "error"
               THEN [@ EXCEPT !.pc = "finish", !.outcome = "raise",
                              !.value = "SandboxError", !.killed = TRUE]
               ELSE [@ EXCEPT !.pc = "finish", !.outcome = "return",
                              !.value = exit, !.killed = TRUE]
          ELSE [@ EXCEPT !.pc = "finish", !.outcome = "return",
                         !.value = IF exit = "zero" THEN "completed" ELSE "failed"]]
    /\ UNCHANGED <<pending_jobs, completed_jobs, jobRec>>

\* asyncio.wait_for gives up on the unit.
\*   Sandbox.run_command: SandboxError("Execution timed out ...") is raised,
\*   the finally block sends SIGKILL and deletes the container.
\*   Executor._handle_run_python: proc.kill(), then a JobResponse with
\*   status "timeout" is returned.
UnitTimeout(s) ==
    LET unit == jobRec[task[s].job].unit IN
    /\ task[s].pc = "unit"
    /\ task' = [task EXCEPT ![s] =
          IF unit = "sandbox"
          THEN [@ EXCEPT !.pc = "finish", !.outcome = "raise", !.value = "SandboxError",
                         !.timedOut = TRUE, !.killed = TRUE]
          ELSE [@ EXCEPT !.pc = "finish", !.outcome = "return", !.value = "timeout",
                         !.timedOut = TRUE, !.killed = TRUE]]
    /\ UNCHANGED <<pending_jobs, completed_jobs, jobRec>>

\* _process_job, the end: after a return the record is marked completed,
\* stored in completed_jobs and deleted from pending_jobs; after an
\* exception the except block marks it failed, stores it and deletes it.
\* `del self.pending_jobs[job_id]` raises KeyError when the entry is gone:
\* raised in the try block it leads into the except block, raised in the
\* except block it ends the task.
ProcessFinish(s) ==
    LET j == task[s].job_id
        job == task[s].job
        gone == pending_jobs[j] = 0
        returned == task[s].outcome = "return" IN
    /\ task[s].pc = "finish"
    /\ jobRec' = [jobRec EXCEPT ![job] =
          IF returned /\ ~gone
          THEN [@ EXCEPT !.status = "completed", !.result = task[s].value]
          ELSE IF returned
          THEN [@ EXCEPT !.status = "failed", !.result = task[s].value, !.error = "KeyError"]
          ELSE [@ EXCEPT !.status = "failed", !.error = task[s].value]]
    /\ completed_jobs' = [completed_jobs EXCEPT ![j] = job]
    /\ pending_jobs' = [pending_jobs EXCEPT ![j] = 0]
    /\ task' = [task EXCEPT ![s].pc = "done"]

(***************************************************************************)
(*                 INTENT ENDPOINTS (routes.py)                            *)
(* A call of an intent endpoint such as run_python_endpoint.  FastAPI      *)
(* resolves Depends(verify_quantum_signature) before it calls the endpoint *)
(* function; an HTTPException raised by the dependency is the response.    *)
(* What verify_signature answers is an input here: the verifier itself is  *)
(* the authentication part of the model.                                   *)
(***************************************************************************)

\* endpoint calls made in one behaviour
EndpointCalls == {1, 2, 3}
\* what verify_quantum_signature does: returns True, raises 401 or 500
AuthOutcomes == {"ok", "401", "500"}
\* what validate_intent_schema does: returns, raises SchemaValidationError,
\* raises another exception
SchemaOutcomes == {"valid", "SchemaValidationError", "Exception"}

NoCall == [pc |-> "none", passed |-> <<>>, response |-> "none", job |-> 0]

VARIABLES
    ep    \* the endpoint calls: position, checks passed in order, response, job

dispatchVars == <<ep>>

DispatchInit == ep = [d \in EndpointCalls |-> NoCall]

\* the request reaches submit_job although its validation raised
AfterValidationAlways(outcome) == "submit"
\* run_python_endpoint, lines 3592-3597: submit_job follows
\* validate_intent_schema in the try block, so it runs only when the
\* validation returned
AfterValidation(outcome) == IF outcome = "valid" THEN "submit" ELSE "done"

\* the response of the except blocks of run_python_endpoint
ErrorResponse(outcome) == IF outcome = "SchemaValidationError" THEN "422" ELSE "500"

\* the dependency verify_quantum_signature is resolved
ResolveAuth(d, outcome) ==
    /\ ep[d].pc = "none"
    /\ \A e \in EndpointCalls : e < d => ep[e].pc # "none"
    /\ ep' = [ep EXCEPT ![d] =
                IF outcome = "ok"
                THEN [@ EXCEPT !.pc = "validate", !.passed = <<"signature">>]
                ELSE [@ EXCEPT !.pc = "done", !.response = outcome]]
    /\ UNCHANGED jobVars

\* await validate_intent_schema(intent_data.model_dump(), ...)
ValidateIntentSchema(d, outcome) ==
    /\ ep[d].pc = "validate"
    /\ ep' = [ep EXCEPT ![d] =
                [@ EXCEPT !.pc = AfterValidation(outcome),
                          !.passed = IF outcome = "valid" THEN Append(@, "schema") ELSE @,
                          !.response = IF outcome = "valid" THEN @
                                       ELSE ErrorResponse(outcome)]]
    /\ UNCHANGED jobVars

\* job_id = await job_processor.submit_job(...); JobResponse "accepted"
EndpointSubmit(d, s, j, unit) ==
    /\ ep[d].pc = "submit"
    /\ SubmitJob(s, j, unit)
    /\ ep' = [ep EXCEPT ![d] = [@ EXCEPT !.pc = "done", !.job = s,
                                         !.response = IF @ = "none" THEN "202" ELSE @]]

(***************************************************************************)
(*            ARTIFACTS (manager.py, storage.py, ledger.py, routes.py)     *)
(* The manager is modelled in the state its constructor leaves it in:      *)
(* _redis_client is None, so metadata is read from and written to the      *)
(* ledger only.  expires_at is an instant of the server clock; 0 is None.  *)
(***************************************************************************)

\* limits, scaled: max upload size (100 MB in the code) and the size of one
\* read (8192 bytes in the code), in bytes
MaxFileSize == 3
ChunkSize == 2

\* uploads, downloads made in one behaviour; generate_uuid gives upload u
\* the artifact id u
Ups == {1, 2}
Downs == {1}
ArtIds == Ups
Payloads == {<<>>, <<1, 2>>, <<2, 1, 3>>, <<3, 1, 2, 1>>, <<1, 2, 3, 1, 2>>}
Uploaders == {"rs_a"}
ArtUsers == {"rs_a", "rs_b", "rs_c"}
\* who asks for a download; "" is a call that names no requester
Requesters == ArtUsers \cup {""}
\* access_control["read"] lists offered at upload
ReadLists == {{}, {"rs_b"}}

NoFile == [exists |-> FALSE, data |-> <<>>]
NoMeta == [exists |-> FALSE, originator |-> "", size_bytes |-> 0,
           sha256_hash |-> Sha256(<<>>), read |-> {}, write |-> {}, expires_at |-> 0]
NoUpload == [pc |-> "none", originator |-> "", read |-> {}, write |-> {},
             expires_at |-> 0, src |-> <<>>, pos |-> 0,
             hasher |-> <<>>, total_size |-> 0, result |-> "none",
             error |-> "none", sha256_hash |-> Sha256(<<>>)]
NoDownload == [pc |-> "none", id |-> 0, caller |-> "", via |-> "", meta |-> NoMeta,
               handle |-> <<>>, pos |-> 0, got |-> <<>>, outcome |-> "none"]

VARIABLES
    tempFile,   \* <base_path>/temp_<artifact_id>, the manager's upload file
    binFile,    \* <base_path>/<artifact_id>.bin, ArtifactStorage._get_file_path
    ledger,     \* the artifacts table of ArtifactLedger
    up,         \* the upload_artifact calls
    down,       \* the downloads
    deleting    \* a delete_artifact call between its two deletions (0: none)

artVars == <<tempFile, binFile, ledger, up, down, deleting>>

ArtInit ==
    /\ tempFile = [a \in ArtIds |-> NoFile]
    /\ binFile = [a \in ArtIds |-> NoFile]
    /\ ledger = [a \in ArtIds |-> NoMeta]
    /\ up = [u \in Ups |-> NoUpload]
    /\ down = [d \in Downs |-> NoDownload]
    /\ deleting = 0

\* one temp file for all uploads
TempPathShared(u) == 1
\* temp_path of upload u: <base_path>/temp_<artifact_id>
TempPath(u) == u

\* the bytes of b from position pos on, at most n of them: file.read(n)
ReadChunk(b, pos, n) ==
    SubSeq(b, pos + 1, IF pos + n < Len(b) THEN pos + n ELSE Len(b))

\* a hasher that restarts on every chunk
HasherUpdateRestart(h, chunk) == chunk
\* hasher.update(chunk): the digest is over everything fed so far
HasherUpdate(h, chunk) == h \o chunk
\* hasher.hexdigest()
HexDigest(h) == Sha256(h)

\* a size check that lets every upload through
ExceedsLimitNever(size) == FALSE
\* upload_artifact: total_size > 100 * 1024 * 1024
ExceedsLimit(size) == size > MaxFileSize

\* ArtifactManager._check_access
CheckAccess(metadata, requester, permission) ==
    \/ metadata.originator = requester
    \/ requester \in (IF permission = "read" THEN metadata.read ELSE metadata.write)

\* upload_artifact, lines 2668-2675: the id is drawn, the temp file opened
UploadStartWith(u, originator, b, read, write, expires_at) ==
    /\ up[u].pc = "none"
    /\ \A v \in Ups : v < u => up[v].pc # "none"
    /\ up' = [up EXCEPT ![u] = [NoUpload EXCEPT !.pc = "stream", !.originator = originator,
                                               !.read = read, !.write = write,
                                               !.expires_at = expires_at, !.src = b]]
    /\ tempFile' = [tempFile EXCEPT ![TempPath(u)] = [exists |-> TRUE, data |-> <<>>]]
    /\ UNCHANGED <<binFile, ledger, down, deleting>>

\* an upload with the default expires_at = None and no write list
UploadStart(u, originator, b, read) == UploadStartWith(u, originator, b, read, {}, 0)

\* the except and finally blocks of upload_artifact: _cleanup_artifact
\* (storage and ledger entries of the id are deleted), the temp file is
\* removed, the exception e is raised
UploadFailed(u, e) ==
    /\ up' = [up EXCEPT ![u].pc = "done", ![u].result = "error", ![u].error = e]
    /\ tempFile' = [tempFile EXCEPT ![TempPath(u)] = NoFile]
    /\ binFile' = [binFile EXCEPT ![u] = NoFile]
    /\ ledger' = [ledger EXCEPT ![u] = NoMeta]

\* upload_artifact, the streaming loop: one file.read(8192); an empty read
\* ends the loop, otherwise the chunk is counted, hashed and written and
\* the size limit is checked
UploadChunk(u) ==
    LET chunk == ReadChunk(up[u].src, up[u].pos, ChunkSize)
        size == up[u].total_size + Len(chunk) IN
    /\ up[u].pc = "stream"
    /\ IF chunk = <<>>
       THEN /\ up' = [up EXCEPT ![u].pc = "quota",
                                ![u].sha256_hash = HexDigest(up[u].hasher)]
            /\ UNCHANGED <<tempFile, binFile, ledger>>
       ELSE IF ExceedsLimit(size)
       THEN UploadFailed(u, "StorageError")
       ELSE /\ up' = [up EXCEPT ![u].pos = @ + Len(chunk), ![u].total_size = size,
                                ![u].hasher = HasherUpdate(@, chunk)]
            /\ tempFile' = [tempFile EXCEPT ![TempPath(u)].data = @ \o chunk]
            /\ UNCHANGED <<binFile, ledger>>
    /\ UNCHANGED <<down, deleting>>

\* _check_upload_quota: the rate limit or the storage quota may refuse
UploadQuota(u, allowed) ==
    /\ up[u].pc = "quota"
    /\ IF allowed
       THEN /\ up' = [up EXCEPT ![u].pc = "move"]
            /\ UNCHANGED <<tempFile, binFile, ledger>>
       ELSE UploadFailed(u, "RateLimitExceededError")
    /\ UNCHANGED <<down, deleting>>

\* ArtifactStorage.save_file(artifact_id, temp_path): the temp file is moved
\* to the artifact's path in storage
SaveFile(u) ==
    /\ up[u].pc = "move"
    /\ binFile' = [binFile EXCEPT ![u] = tempFile[TempPath(u)]]
    /\ tempFile' = [tempFile EXCEPT ![TempPath(u)] = NoFile]
    /\ up' = [up EXCEPT ![u].pc = "record"]
    /\ UNCHANGED <<ledger, down, deleting>>

\* upload_artifact, lines 2697-2726: the metadata is built and recorded in
\* the ledger (ArtifactLedger.record_artifact), the result is returned; a
\* LedgerError leads to the cleanup
UploadRecord(u, dbUp) ==
    /\ up[u].pc = "record"
    /\ IF dbUp
       THEN /\ ledger' = [ledger EXCEPT ![u] =
                  [exists |-> TRUE, originator |-> up[u].originator,
                   size_bytes |-> up[u].total_size, sha256_hash |-> up[u].sha256_hash,
                   read |-> up[u].read, write |-> up[u].write,
                   expires_at |-> up[u].expires_at]]
            /\ up' = [up EXCEPT ![u].pc = "done", ![u].result = "ok"]
            /\ UNCHANGED <<tempFile, binFile>>
       ELSE UploadFailed(u, "LedgerError")
    /\ UNCHANGED <<down, deleting>>

\* a download of artifact id by caller, through ArtifactManager.
\* download_artifact(id, requester = caller) ("api") or through
\* download_artifact_endpoint ("endpoint")
DownloadStart(d, id, caller, via) ==
    /\ down[d].pc = "none"
    /\ \A e \in Downs : e < d => down[e].pc # "none"
    /\ up[id].pc # "none"
    /\ down' = [down EXCEPT ![d] = [NoDownload EXCEPT !.pc = "meta", !.id = id,
                                                     !.caller = caller, !.via = via]]
    /\ UNCHANGED <<tempFile, binFile, ledger, up, deleting>>

\* after get_artifact_metadata (a LedgerError gives None).
\* download_artifact: not found, access denied (checked only `if requester`),
\* or the stream is handed out.
\* download_artifact_endpoint: 404 when there is no metadata; otherwise it
\* calls download_artifact(artifact_id) with no requester and builds the
\* response headers from metadata["name"], which an ArtifactMetadata does
\* not support: the request ends in 500 "Failed to download artifact".
DownloadMeta(d, dbUp) ==
    LET metadata == IF dbUp THEN ledger[down[d].id] ELSE NoMeta IN
    /\ down[d].pc = "meta"
    /\ down' = [down EXCEPT ![d] =
          IF ~metadata.exists
          THEN [@ EXCEPT !.pc = "done", !.outcome = "not_found"]
          ELSE IF down[d].via = "endpoint"
          THEN [@ EXCEPT !.pc = "done", !.meta = metadata, !.outcome = "internal_error"]
          ELSE IF down[d].caller # "" /\ ~CheckAccess(metadata, down[d].caller, "read")
          THEN [@ EXCEPT !.pc = "done", !.meta = metadata, !.outcome = "access_denied"]
          ELSE [@ EXCEPT !.pc = "open", !.meta = metadata]]
    /\ UNCHANGED <<tempFile, binFile, ledger, up, deleting>>

\* ArtifactStorage.load_stream, first iteration: os.path.exists, open
DownloadOpen(d) ==
    /\ down[d].pc = "open"
    /\ down' = [down EXCEPT ![d] =
          IF binFile[down[d].id].exists
          THEN [@ EXCEPT !.pc = "read", !.handle = binFile[down[d].id].data]
          ELSE [@ EXCEPT !.pc = "done", !.outcome = "not_found"]]
    /\ UNCHANGED <<tempFile, binFile, ledger, up, deleting>>

\* load_stream: one f.read(chunk_size); an empty read ends the stream
DownloadRead(d) ==
    LET chunk == ReadChunk(down[d].handle, down[d].pos, ChunkSize) IN
    /\ down[d].pc = "read"
    /\ down' = [down EXCEPT ![d] =
          IF chunk = <<>>
          THEN [@ EXCEPT !.pc = "done", !.outcome = "ok"]
          ELSE [@ EXCEPT !.pos = @ + Len(chunk), !.got = @ \o chunk]]
    /\ UNCHANGED <<tempFile, binFile, ledger, up, deleting>>

\* ArtifactManager.delete_artifact by someone with write access: the file
\* is deleted from storage
DeleteArtifactFile(id, requester) ==
    /\ deleting = 0
    /\ ledger[id].exists
    /\ CheckAccess(ledger[id], requester, "write")
    /\ binFile' = [binFile EXCEPT ![id] = NoFile]
    /\ deleting' = id
    /\ UNCHANGED <<tempFile, ledger, up, down>>

\* delete_artifact, continued: the ledger row is deleted; a LedgerError
\* makes delete_artifact return False with the row still there
DeleteArtifactRow(dbUp) ==
    /\ deleting # 0
    /\ ledger' = IF dbUp THEN [ledger EXCEPT ![deleting] = NoMeta] ELSE ledger
    /\ deleting' = 0
    /\ UNCHANGED <<tempFile, binFile, up, down>>

\* the bytes stored for an artifact change behind the store's back (a
\* failing disk, a write by another program): one byte is appended
CorruptFile(id) ==
    /\ binFile[id].exists
    /\ binFile[id].data = up[id].src
    /\ binFile' = [binFile EXCEPT ![id].data = @ \o <<0>>]
    /\ UNCHANGED <<tempFile, ledger, up, down, deleting>>

(***************************************************************************)
(*        EXPIRED ARTIFACTS: start_artifact_cleanup_task                   *)
(* The task calls cleanup_expired_artifacts, sleeps an hour, and calls it  *)
(* again, for ever.                                                        *)
(***************************************************************************)
VARIABLES
    sweep   \* the cleanup task: asleep or in its loop, the ids still to delete

sweepVars == <<sweep>>

SweepInit == sweep = [pc |-> "sleep", todo |-> {}]

\* ArtifactLedger.get_expired_artifacts: expires_at IS NOT NULL AND
\* expires_at < now
Expired(id) ==
    ledger[id].exists /\ ledger[id].expires_at # 0 /\ ledger[id].expires_at < now

\* cleanup_expired_artifacts: delete_artifact(artifact_id, "system")
CleanupRequester(metadata) == "system"

\* cleanup_expired_artifacts: expired_artifacts = get_expired_artifacts()
CleanupExpiredArtifacts ==
    /\ sweep.pc = "sleep"
    /\ sweep' = [pc |-> "loop", todo |-> {id \in ArtIds : Expired(id)}]
    /\ UNCHANGED artVars

\* the loop of cleanup_expired_artifacts: delete_artifact for the next id.
\* Without metadata it returns False; without write access it raises
\* StorageError("Delete permission denied"), which its except block turns
\* into False; otherwise the file is deleted from storage.
CleanupDelete(id) ==
    /\ sweep.pc = "loop"
    /\ deleting = 0
    /\ id \in sweep.todo
    /\ \A other \in sweep.todo : id <= other
    /\ sweep' = [sweep EXCEPT !.todo = @ \ {id}]
    /\ IF ledger[id].exists
          /\ CheckAccess(ledger[id], CleanupRequester(ledger[id]), "write")
       THEN DeleteArtifactFile(id, CleanupRequester(ledger[id]))
       ELSE UNCHANGED artVars

\* the loop is over: await asyncio.sleep(3600)
CleanupSleep ==
    /\ sweep.pc = "loop"
    /\ sweep.todo = {}
    /\ deleting = 0
    /\ sweep' = [sweep EXCEPT !.pc = "sleep"]
    /\ UNCHANGED artVars

(***************************************************************************)
(*                    SANDBOX RUNS (sandbox.py)                            *)
(* One run is one call of Sandbox.run_python_script or Sandbox.run_command *)
(* on the process-wide Sandbox (get_sandbox).  An action is the code       *)
(* between two awaits of Docker or of the file system.  Every call of the  *)
(* Docker API may raise DockerError.                                       *)
(***************************************************************************)

\* runs made in one behaviour
MaxRuns == 2
Runs == 1..MaxRuns
\* how a run is entered
Entries == {"script", "command"}

NoRun == [pc |-> "none", entry |-> "", stream_logs |-> FALSE, raised |-> "none",
          returned |-> "none", timedOut |-> FALSE, killed |-> FALSE,
          consumed |-> "none"]

VARIABLES
    run,         \* the calls of the sandbox
    container,   \* the container of each run, as Docker has it
    scriptFile   \* temp_script_<job_id>.py of each run exists

sandboxVars == <<run, container, scriptFile>>

SandboxInit ==
    /\ run = [r \in Runs |-> NoRun]
    /\ container = [r \in Runs |-> "none"]
    /\ scriptFile = [r \in Runs |-> FALSE]

\* run_python_script, lines 4199-4206: the script is written to the temp
\* file; a failing write leaves the file behind for the finally block.
\* run_command is entered directly by "command" runs.
StartRun(r, entry, stream_logs, written) ==
    /\ run[r].pc = "none"
    /\ \A q \in Runs : q < r => run[q].pc # "none"
    /\ IF entry = "script"
       THEN /\ scriptFile' = [scriptFile EXCEPT ![r] = TRUE]
            /\ run' = [run EXCEPT ![r] =
                  IF written
                  THEN [NoRun EXCEPT !.pc = "create", !.entry = entry,
                                     !.stream_logs = stream_logs]
                  ELSE [NoRun EXCEPT !.pc = "remove", !.entry = entry,
                                     !.stream_logs = stream_logs, !.raised = "OSError"]]
       ELSE /\ run' = [run EXCEPT ![r] = [NoRun EXCEPT !.pc = "create", !.entry = entry,
                                                       !.stream_logs = stream_logs]]
            /\ UNCHANGED scriptFile
    /\ UNCHANGED container

\* run_command: container = await self._create_container(...); when it
\* raises there is no container for the finally block to kill and delete
CreateContainer(r, ok) ==
    /\ run[r].pc = "create"
    /\ IF ok
       THEN /\ container' = [container EXCEPT ![r] = "created"]
            /\ run' = [run EXCEPT ![r].pc = "start"]
       ELSE /\ run' = [run EXCEPT ![r] =
                  [@ EXCEPT !.pc = IF run[r].entry = "script" THEN "remove" ELSE "done",
                            !.raised = "SandboxError"]]
            /\ UNCHANGED container
    /\ UNCHANGED scriptFile

\* run_command: await container.start(); with stream_logs the log generator
\* is returned at once
StartContainer(r, ok) ==
    /\ run[r].pc = "start"
    /\ IF ok
       THEN /\ container' = [container EXCEPT ![r] = "running"]
            /\ IF run[r].stream_logs
               THEN run' = [run EXCEPT ![r] = [@ EXCEPT !.pc = "kill",
                                                         !.returned = "log_stream"]]
               ELSE run' = [run EXCEPT ![r].pc = "wait"]
       ELSE /\ run' = [run EXCEPT ![r] = [@ EXCEPT !.pc = "kill",
                                                    !.raised = "SandboxError"]]
            /\ UNCHANGED container
    /\ UNCHANGED scriptFile

\* the command of the container ends by itself
ContainerExits(r) ==
    /\ container[r] = "running"
    /\ container' = [container EXCEPT ![r] = "exited"]
    /\ UNCHANGED <<run, scriptFile>>

\* run_command: status = await asyncio.wait_for(container.wait(), timeout):
\* the status of an exited container, TimeoutError while it still runs, or
\* a DockerError
WaitContainer(r, ok) ==
    /\ run[r].pc = "wait"
    /\ run' = [run EXCEPT ![r] =
          IF ~ok THEN [@ EXCEPT !.pc = "kill", !.raised = "SandboxError"]
          ELSE IF container[r] = "exited" THEN [@ EXCEPT !.pc = "logs"]
          ELSE [@ EXCEPT !.pc = "kill", !.raised = "SandboxError", !.timedOut = TRUE]]
    /\ UNCHANGED <<container, scriptFile>>

\* run_command: stdout and stderr are read, the SandboxResult is returned
ContainerLog(r, ok) ==
    /\ run[r].pc = "logs"
    /\ run' = [run EXCEPT ![r] =
          IF ok THEN [@ EXCEPT !.pc = "kill", !.returned = "SandboxResult"]
          ELSE [@ EXCEPT !.pc = "kill", !.raised = "SandboxError"]]
    /\ UNCHANGED <<container, scriptFile>>

\* finally block of run_command: await container.kill(signal="SIGKILL");
\* Docker refuses to kill a container that is not running; every exception
\* is passed over
KillContainer(r, ok) ==
    /\ run[r].pc = "kill"
    /\ container' = IF ok /\ container[r] = "running"
                    THEN [container EXCEPT ![r] = "exited"] ELSE container
    /\ run' = [run EXCEPT ![r] = [@ EXCEPT !.pc = "delete",
                                           !.killed = ok /\ container[r] = "running"]]
    /\ UNCHANGED scriptFile

\* finally block of run_command: await container.delete(force=True); every
\* exception is passed over.  run_command is over: a "command" run ends,
\* a "script" run goes on to the finally block of run_python_script.
DeleteContainer(r, ok) ==
    /\ run[r].pc = "delete"
    /\ container' = IF ok THEN [container EXCEPT ![r] = "deleted"] ELSE container
    /\ run' = [run EXCEPT ![r].pc = IF run[r].entry = "script" THEN "remove" ELSE "done"]
    /\ UNCHANGED scriptFile

\* finally block of run_python_script: await aiofiles.os.remove(...)
RemoveScript(r) ==
    /\ run[r].pc = "remove"
    /\ scriptFile' = [scriptFile EXCEPT ![r] = FALSE]
    /\ run' = [run EXCEPT ![r].pc = "done"]
    /\ UNCHANGED container

\* the caller iterates over the generator run_command returned: log_stream
\* calls container.log(follow=True), which raises DockerError for a
\* container that Docker no longer has
ConsumeLogStream(r) ==
    /\ run[r].pc = "done"
    /\ run[r].returned = "log_stream"
    /\ run[r].consumed = "none"
    /\ run' = [run EXCEPT ![r].consumed =
                  IF container[r] = "deleted" THEN "DockerError" ELSE "logs"]
    /\ UNCHANGED <<container, scriptFile>>

(***************************************************************************)
(*                 ARTIFACT STORAGE (storage.py): save_stream              *)
(* ArtifactStorage.save_stream takes the artifact id from its caller.  An  *)
(* action is the code between two suspending awaits: an uncontended        *)
(* asyncio.Lock is taken and released without suspending, the aiofiles     *)
(* calls (open, write, rename, remove) and the redis call suspend.         *)
(***************************************************************************)

\* save_stream calls made in one behaviour
Saves == {1, 2, 3}
StoreIds == {"a1", "a2"}
\* ArtifactStorageConfig.max_files (10000 by default)
max_files == 1

NoSave == [pc |-> "none", id |-> "", src |-> <<>>, pos |-> 0, lock |-> 0,
           hasher |-> <<>>, total_size |-> 0, result |-> "none", raced |-> FALSE]

VARIABLES
    stTemp,           \* <base_path>/.tmp/<artifact_id>.tmp
    stFinal,          \* <base_path>/<artifact_id>.bin
    active_uploads,   \* ArtifactStorage._active_uploads: id -> its Lock (0: no entry)
    lockOwner,        \* the Locks, named by the call that created them: the holder
    sv                \* the save_stream calls

storeVars == <<stTemp, stFinal, active_uploads, lockOwner, sv>>

StoreInit ==
    /\ stTemp = [a \in StoreIds |-> NoFile]
    /\ stFinal = [a \in StoreIds |-> NoFile]
    /\ active_uploads = [a \in StoreIds |-> 0]
    /\ lockOwner = [l \in Saves |-> 0]
    /\ sv = [c \in Saves |-> NoSave]

\* a save_stream call that has begun and not yet returned or raised
Saving(c) == sv[c].pc \notin {"none", "done"}

\* _get_upload_lock: the Lock of the id, created when the id has no entry
GetUploadLock(c, a) == IF active_uploads[a] # 0 THEN active_uploads[a] ELSE c

\* _release_upload_lock: the entry of the id is deleted if there is one
ReleaseUploadLock(a) == active_uploads' = [active_uploads EXCEPT ![a] = 0]

\* save_stream, lines 4919-4922: the Lock of the id is fetched or created,
\* then `async with upload_lock`: taken at once when it is free
SaveStream(c, a, b) ==
    LET l == GetUploadLock(c, a)
        others == {e \in Saves : e # c /\ Saving(e) /\ sv[e].id = a} IN
    /\ sv[c].pc = "none"
    /\ \A e \in Saves : e < c => sv[e].pc # "none"
    /\ active_uploads' = [active_uploads EXCEPT ![a] = l]
    /\ lockOwner' = IF lockOwner[l] = 0 THEN [lockOwner EXCEPT ![l] = c] ELSE lockOwner
    /\ sv' = [e \in Saves |->
                IF e = c
                THEN [NoSave EXCEPT !.pc = IF lockOwner[l] = 0 THEN "open" ELSE "locked",
                                    !.id = a, !.src = b, !.lock = l,
                                    !.raced = (others # {})]
                ELSE IF e \in others THEN [sv[e] EXCEPT !.raced = TRUE]
                ELSE sv[e]]
    /\ UNCHANGED <<stTemp, stFinal>>

\* `async with upload_lock` of a call that had to wait: the Lock is free
AcquireUploadLock(c) ==
    /\ sv[c].pc = "locked"
    /\ lockOwner[sv[c].lock] = 0
    /\ lockOwner' = [lockOwner EXCEPT ![sv[c].lock] = c]
    /\ sv' = [sv EXCEPT ![c].pc = "open"]
    /\ UNCHANGED <<stTemp, stFinal, active_uploads>>

\* _get_file_count: the .bin files in base_path
GetFileCount == Cardinality({a \in StoreIds : stFinal[a].exists})

\* _check_storage_limits: at max_files a StorageError is raised inside the
\* method's try block, whose `except Exception` logs a warning and lets the
\* method return; what the caller gets is None in both cases
CheckStorageLimits(current_files) ==
    IF current_files >= max_files THEN "warning" ELSE "ok"

\* save_stream inside the lock: _check_storage_limits (no suspension), then
\* async_open(temp_file_path, "wb"): the temp file is created or truncated
OpenTemp(c) ==
    /\ sv[c].pc = "open"
    /\ CheckStorageLimits(GetFileCount) \in {"ok", "warning"}
    /\ stTemp' = [stTemp EXCEPT ![sv[c].id] = [exists |-> TRUE, data |-> <<>>]]
    /\ sv' = [sv EXCEPT ![c].pc = "stream"]
    /\ UNCHANGED <<stFinal, active_uploads, lockOwner>>

\* an exception inside `async with upload_lock`: the Lock is released, the
\* except block begins _cleanup_upload, which removes the temp file if it
\* exists, then the final file if it exists; with nothing to remove the
\* finally block follows at once
SaveFails(c) ==
    LET a == sv[c].id IN
    /\ lockOwner' = [lockOwner EXCEPT ![sv[c].lock] = 0]
    /\ IF stTemp[a].exists
       THEN /\ sv' = [sv EXCEPT ![c].pc = "cleanup_temp", ![c].result = "StorageError"]
            /\ UNCHANGED active_uploads
       ELSE IF stFinal[a].exists
       THEN /\ sv' = [sv EXCEPT ![c].pc = "cleanup_final", ![c].result = "StorageError"]
            /\ UNCHANGED active_uploads
       ELSE /\ sv' = [sv EXCEPT ![c].pc = "done", ![c].result = "StorageError"]
            /\ ReleaseUploadLock(a)

\* save_stream, the streaming loop: one chunk of the stream is counted,
\* checked against max_file_size, hashed and written; bytes written to a
\* temp file that has been removed meanwhile are lost with it
StreamChunk(c) ==
    LET a == sv[c].id
        chunk == ReadChunk(sv[c].src, sv[c].pos, ChunkSize)
        size == sv[c].total_size + Len(chunk) IN
    /\ sv[c].pc = "stream"
    /\ IF chunk = <<>>
       THEN /\ sv' = [sv EXCEPT ![c].pc = "rename"]
            /\ UNCHANGED <<stTemp, active_uploads, lockOwner>>
       ELSE IF ExceedsLimit(size)
       THEN SaveFails(c) /\ UNCHANGED stTemp
       ELSE /\ sv' = [sv EXCEPT ![c].pos = @ + Len(chunk), ![c].total_size = size,
                                ![c].hasher = HasherUpdate(@, chunk)]
            /\ stTemp' = IF stTemp[a].exists
                         THEN [stTemp EXCEPT ![a].data = @ \o chunk] ELSE stTemp
            /\ UNCHANGED <<active_uploads, lockOwner>>
    /\ UNCHANGED stFinal

\* async_rename(temp_file_path, final_file_path): the temp file takes the
\* final name, replacing a file that has it; FileNotFoundError when the
\* temp file is gone
RenameTemp(c) ==
    LET a == sv[c].id IN
    /\ sv[c].pc = "rename"
    /\ IF stTemp[a].exists
       THEN /\ stFinal' = [stFinal EXCEPT ![a] = stTemp[a]]
            /\ stTemp' = [stTemp EXCEPT ![a] = NoFile]
            /\ sv' = [sv EXCEPT ![c].pc = "cache"]
            /\ UNCHANGED <<active_uploads, lockOwner>>
       ELSE SaveFails(c) /\ UNCHANGED <<stTemp, stFinal>>

\* save_stream, lines 4951-4967: metrics, the metadata is cached in redis,
\* (size, hash) is returned: the Lock is released and the finally block
\* deletes the entry of the id.  A failing setex is an exception like any
\* other.
CacheFileMeta(c, redisUp) ==
    LET a == sv[c].id IN
    /\ sv[c].pc = "cache"
    /\ IF redisUp
       THEN /\ sv' = [sv EXCEPT ![c].pc = "done", ![c].result = "ok"]
            /\ lockOwner' = [lockOwner EXCEPT ![sv[c].lock] = 0]
            /\ ReleaseUploadLock(a)
       ELSE SaveFails(c)
    /\ UNCHANGED <<stTemp, stFinal>>

\* _cleanup_upload: async_remove(temp_path), then the final file is looked
\* for
CleanupTemp(c) ==
    LET a == sv[c].id IN
    /\ sv[c].pc = "cleanup_temp"
    /\ stTemp' = [stTemp EXCEPT ![a] = NoFile]
    /\ IF stFinal[a].exists
       THEN sv' = [sv EXCEPT ![c].pc = "cleanup_final"] /\ UNCHANGED active_uploads
       ELSE sv' = [sv EXCEPT ![c].pc = "done"] /\ ReleaseUploadLock(a)
    /\ UNCHANGED <<stFinal, lockOwner>>

\* _cleanup_upload: async_remove(file_path); then the finally block of
\* save_stream
CleanupFinal(c) ==
    LET a == sv[c].id IN
    /\ sv[c].pc = "cleanup_final"
    /\ stFinal' = [stFinal EXCEPT ![a] = NoFile]
    /\ sv' = [sv EXCEPT ![c].pc = "done"]
    /\ ReleaseUploadLock(a)
    /\ UNCHANGED <<stTemp, lockOwner>>

(***************************************************************************)
(*              RATE LIMITER (quantum_auth.py): _check_rate_limit          *)
(* The rate limit step of verify_signature by itself: the calls share the  *)
(* counters `rate` and the clock `now` of the authentication manager.      *)
(* Between its redis calls a call only suspends; the counters are changed  *)
(* by INCR alone, so the calls are modelled one after the other.           *)
(***************************************************************************)

\* _check_rate_limit calls made in one behaviour
RateCalls == {1, 2, 3}

NoRateCall == [pc |-> "none", originator |-> "", client_ip |-> "", at |-> 0,
               originator_count |-> 0, ip_count |-> 0,
               raised |-> FALSE, allowed |-> FALSE, pastCeiling |-> FALSE]

VARIABLES
    rl    \* the _check_rate_limit calls and what they returned

rateVars == <<rl>>

RateInit == rl = [c \in RateCalls |-> NoRateCall]

\* a counter of the cache that has gone past its ceiling and not expired
PastCeiling(k, ceiling) == Live(rate[k]) /\ rate[k].n > ceiling

\* one call of _check_rate_limit(originator, client_ip), lines 262-284
CallCheckRateLimit(c, originator, client_ip, failAt) ==
    LET limit == CheckRateLimit(originator, client_ip, failAt)
        ok == <<"originator", originator>>
        ik == <<"ip", client_ip>> IN
    /\ rl[c].pc = "none"
    /\ \A e \in RateCalls : e < c => rl[e].pc # "none"
    /\ failAt = limit.raisedAt
    /\ rate' = [rate EXCEPT ![ok] = limit.oc, ![ik] = limit.ic]
    /\ rl' = [rl EXCEPT ![c] =
                [pc |-> "done", originator |-> originator, client_ip |-> client_ip,
                 at |-> now,
                 originator_count |-> limit.oc.n, ip_count |-> limit.ic.n,
                 raised |-> (limit.raisedAt # 0), allowed |-> limit.allowed,
                 pastCeiling |-> (PastCeiling(ok, per_originator)
                                    \/ PastCeiling(ik, per_ip))]]
    /\ UNCHANGED <<now, redisNonce, dbNonce, persistTasks, secretCache, wk, faults>>

(***************************************************************************)
(*        ARTIFACT LEDGER: the tables artifacts and artifact_audit         *)
(* Every method of ArtifactLedger runs its statements on one connection    *)
(* taken from get_db.  artifact_audit.artifact_id is declared with         *)
(* FOREIGN KEY ... REFERENCES artifacts ON DELETE CASCADE; SQLite applies  *)
(* foreign-key actions only on a connection where foreign_keys is on,      *)
(* which is decided where the connection is made.  Both settings are       *)
(* modelled.                                                               *)
(***************************************************************************)

\* audit rows written in one behaviour
MaxAudit == 3

\* the callers that change an artifact's metadata
Changers == {"rs_a"}

NoRow == [state |-> "none", originator |-> "", read |-> {}, version |-> 0]

\* an ArtifactMetadata as the ledger builds it; created_at is a datetime
NoLedgerMeta == [exists |-> FALSE, originator |-> "", read |-> {}, write |-> {},
                 version |-> 0, created_at |-> "datetime"]

\* download_artifact calls made in one behaviour
Dls == {1, 2}
\* nothing under a redis key
NoEntry == <<>>
\* began: the version of the row when the call began (0: there was none)
NoDl == [pc |-> "none", id |-> 0, requester |-> "", began |-> 0,
         meta |-> NoLedgerMeta, outcome |-> "none"]

VARIABLES
    foreign_keys,    \* PRAGMA foreign_keys of the connection ("unset": no connection yet)
    artifacts,       \* the table artifacts: artifact_id -> row
    artifact_audit,  \* the table artifact_audit: a set of rows
    auditSeq,        \* sqlite_sequence of artifact_audit (AUTOINCREMENT)
    redis_client,    \* _redis_client of manager and ledger: is there one
    metaCache,       \* redis keys artifact_meta:<id>, written by ArtifactManager
    ledgerCache,     \* redis keys artifact:<id>:meta, written by ArtifactLedger
    dl               \* the download_artifact calls

ledgerVars == <<foreign_keys, artifacts, artifact_audit, auditSeq, redis_client,
                metaCache, ledgerCache, dl>>

LedgerInit ==
    /\ foreign_keys = "unset"
    /\ artifacts = [a \in ArtIds |-> NoRow]
    /\ artifact_audit = {}
    /\ auditSeq = 0
    /\ redis_client = FALSE
    /\ metaCache = [a \in ArtIds |-> NoEntry]
    /\ ledgerCache = [a \in ArtIds |-> NoEntry]
    /\ dl = [d \in Dls |-> NoDl]

\* INSERT INTO artifact_audit (artifact_id, action, changed_by, ...): the
\* row gets the next id of the AUTOINCREMENT column
InsertAudit(audit, seq, artifact_id, action, changed_by) ==
    audit \cup {[id |-> seq + 1, artifact_id |-> artifact_id, action |-> action,
                 changed_by |-> changed_by]}

\* DELETE FROM artifacts WHERE artifact_id = ?: what is left of
\* artifact_audit under FOREIGN KEY (artifact_id) ... ON DELETE CASCADE
OnDeleteCascade(audit, artifact_id, fk) ==
    IF fk = "on" THEN {e \in audit : e.artifact_id # artifact_id} ELSE audit

\* _row_to_metadata: created_at = datetime.fromisoformat(row["created_at"])
RowToMetadata(row) ==
    IF row.state # "stored" THEN NoLedgerMeta
    ELSE [exists |-> TRUE, originator |-> row.originator, read |-> row.read,
          write |-> {}, version |-> row.version, created_at |-> "datetime"]

\* a json.dumps that writes a datetime as its ISO string
JsonDumpsIso(obj) == <<"json", obj>>

\* json.dumps(metadata.model_dump()): model_dump keeps created_at as a
\* datetime object, which json.dumps cannot serialize: TypeError
JsonDumps(obj) ==
    IF obj.created_at = "datetime" THEN "TypeError" ELSE <<"json", obj>>

\* ArtifactMetadata(**json.loads(cached))
JsonLoads(text) == text[2]

\* ArtifactLedger._cache_metadata: setex under artifact:<id>:meta; any
\* exception (that of json.dumps included) is logged, nothing is written
CacheMetadata(cache, a, metadata) ==
    IF redis_client /\ JsonDumps(metadata) # "TypeError"
    THEN [cache EXCEPT ![a] = JsonDumps(metadata)]
    ELSE cache

\* ArtifactLedger._invalidate_cache: delete artifact:<id>:meta; a failing
\* redis is logged
InvalidateCache(cache, a, redisUp) ==
    IF redis_client /\ redisUp THEN [cache EXCEPT ![a] = NoEntry] ELSE cache

\* ArtifactLedger.initialize and ArtifactManager.initialize: the connection
\* is made, _create_tables runs, the redis client is there or not
LedgerInitialize(fk, redis) ==
    /\ foreign_keys = "unset"
    /\ foreign_keys' = fk
    /\ redis_client' = redis
    /\ UNCHANGED <<artifacts, artifact_audit, auditSeq, metaCache, ledgerCache, dl>>

\* ArtifactLedger.record_artifact: the row and its CREATE audit entry
RecordArtifact(a, originator, read, changed_by) ==
    /\ foreign_keys # "unset"
    /\ auditSeq < MaxAudit
    /\ artifacts[a].state = "none"
    /\ \A b \in ArtIds : b < a => artifacts[b].state # "none"
    /\ artifacts' = [artifacts EXCEPT ![a] =
          [state |-> "stored", originator |-> originator, read |-> read, version |-> 1]]
    /\ artifact_audit' = InsertAudit(artifact_audit, auditSeq, a, "CREATE", changed_by)
    /\ auditSeq' = auditSeq + 1
    /\ ledgerCache' = InvalidateCache(ledgerCache, a, TRUE)
    /\ UNCHANGED <<foreign_keys, redis_client, metaCache, dl>>

\* ArtifactLedger.update_artifact_metadata: None when there is no row;
\* otherwise UPDATE ... access_control = ?, version = version + 1, the
\* UPDATE audit entry, and _invalidate_cache for the ledger's own key
UpdateArtifactMetadata(a, read, changed_by, redisUp) ==
    /\ foreign_keys # "unset"
    /\ auditSeq < MaxAudit
    /\ artifacts[a].state = "stored"
    /\ artifacts' = [artifacts EXCEPT ![a].read = read, ![a].version = @ + 1]
    /\ artifact_audit' = InsertAudit(artifact_audit, auditSeq, a, "UPDATE", changed_by)
    /\ auditSeq' = auditSeq + 1
    /\ ledgerCache' = InvalidateCache(ledgerCache, a, redisUp)
    /\ UNCHANGED <<foreign_keys, redis_client, metaCache, dl>>

\* ArtifactLedger.delete_artifact: False when there is no row; otherwise
\* the DELETE audit entry is inserted, then the row is deleted
LedgerDeleteArtifact(a, deleted_by, redisUp) ==
    /\ foreign_keys # "unset"
    /\ auditSeq < MaxAudit
    /\ artifacts[a].state = "stored"
    /\ artifacts' = [artifacts EXCEPT ![a] = [NoRow EXCEPT !.state = "deleted"]]
    /\ artifact_audit' =
          OnDeleteCascade(InsertAudit(artifact_audit, auditSeq, a, "DELETE", deleted_by),
                          a, foreign_keys)
    /\ auditSeq' = auditSeq + 1
    /\ ledgerCache' = InvalidateCache(ledgerCache, a, redisUp)
    /\ UNCHANGED <<foreign_keys, redis_client, metaCache, dl>>

\* download_artifact after get_artifact_metadata returned metadata: not
\* found, access denied (checked only `if requester`), or the stream
AccessOutcome(metadata, requester) ==
    IF ~ metadata.exists THEN "not_found"
    ELSE IF requester # "" /\ ~ CheckAccess(metadata, requester, "read")
    THEN "access_denied"
    ELSE "granted"

\* ArtifactManager.download_artifact(a, requester), first await of
\* get_artifact_metadata: the lookup of artifact_meta:<id>.  A hit is the
\* metadata the access check uses; a miss leads to the ledger.
DownloadArtifact(d, a, requester) ==
    LET hit == redis_client /\ metaCache[a] # NoEntry
        metadata == JsonLoads(metaCache[a])
        call == [NoDl EXCEPT !.id = a, !.requester = requester,
                             !.began = artifacts[a].version] IN
    /\ foreign_keys # "unset"
    /\ dl[d].pc = "none"
    /\ \A e \in Dls : e < d => dl[e].pc # "none"
    /\ artifacts[a].state # "none"
    /\ dl' = [dl EXCEPT ![d] =
          IF hit
          THEN [call EXCEPT !.pc = "done", !.meta = metadata,
                            !.outcome = AccessOutcome(metadata, requester)]
          ELSE [call EXCEPT !.pc = "ledger"]]
    /\ UNCHANGED <<foreign_keys, artifacts, artifact_audit, auditSeq, redis_client,
                   metaCache, ledgerCache>>

\* ArtifactLedger.get_artifact_metadata: the ledger's cached copy if there
\* is one, else the row, which _cache_metadata then tries to cache
LedgerGetMetadata(d) ==
    LET a == dl[d].id
        hit == redis_client /\ ledgerCache[a] # NoEntry
        metadata == IF hit THEN JsonLoads(ledgerCache[a]) ELSE RowToMetadata(artifacts[a]) IN
    /\ dl[d].pc = "ledger"
    /\ dl' = [dl EXCEPT ![d].pc = "check", ![d].meta = metadata]
    /\ ledgerCache' = IF hit \/ ~ metadata.exists THEN ledgerCache
                      ELSE CacheMetadata(ledgerCache, a, metadata)
    /\ UNCHANGED <<foreign_keys, artifacts, artifact_audit, auditSeq, redis_client,
                   metaCache>>

\* ArtifactManager.get_artifact_metadata, the end: with a redis client the
\* metadata is written to artifact_meta:<id>; the TypeError of json.dumps is
\* no LedgerError and leaves download_artifact as StorageError("Download
\* failed").  Then the checks of download_artifact.
DownloadCheck(d) ==
    LET a == dl[d].id
        metadata == dl[d].meta
        caches == metadata.exists /\ redis_client IN
    /\ dl[d].pc = "check"
    /\ IF caches /\ JsonDumps(metadata) = "TypeError"
       THEN /\ dl' = [dl EXCEPT ![d].pc = "done", ![d].outcome = "failed"]
            /\ UNCHANGED metaCache
       ELSE /\ dl' = [dl EXCEPT ![d].pc = "done",
                                ![d].outcome = AccessOutcome(metadata, dl[d].requester)]
            /\ metaCache' = IF caches THEN [metaCache EXCEPT ![a] = JsonDumps(metadata)]
                            ELSE metaCache
    /\ UNCHANGED <<foreign_keys, artifacts, artifact_audit, auditSeq, redis_client,
                   ledgerCache>>

(***************************************************************************)
(*                           SPECIFICATIONS                                *)
(***************************************************************************)
vars == <<authVars, gateVars, jobVars, artVars, sandboxVars, storeVars, rateVars, dispatchVars, sweepVars, ledgerVars>>

Init == AuthInit /\ GateInit /\ JobInit /\ ArtInit /\ SandboxInit /\ StoreInit /\ RateInit /\ DispatchInit /\ SweepInit /\ LedgerInit


\* a step of one subsystem leaves the others as they are
AuthAlone == UNCHANGED <<gateVars, jobVars, artVars, sandboxVars, storeVars, rateVars, dispatchVars, sweepVars, ledgerVars>>
GateAlone == UNCHANGED <<authVars, jobVars, artVars, sandboxVars, storeVars, rateVars, dispatchVars, sweepVars, ledgerVars>>
JobAlone == UNCHANGED <<authVars, gateVars, artVars, sandboxVars, storeVars, rateVars, dispatchVars, sweepVars, ledgerVars>>
ArtAlone == UNCHANGED <<authVars, gateVars, jobVars, sandboxVars, storeVars, rateVars, dispatchVars, sweepVars, ledgerVars>>
SandboxAlone == UNCHANGED <<authVars, gateVars, jobVars, artVars, storeVars, rateVars, dispatchVars, sweepVars, ledgerVars>>
StoreAlone == UNCHANGED <<authVars, gateVars, jobVars, artVars, sandboxVars, rateVars, dispatchVars, sweepVars, ledgerVars>>
\* a rate limit call changes the counters of the authentication manager
RateAlone == UNCHANGED <<gateVars, jobVars, artVars, sandboxVars, storeVars, dispatchVars, sweepVars, ledgerVars>>
\* an endpoint call submits jobs to the job processor
DispatchAlone == UNCHANGED <<authVars, gateVars, artVars, sandboxVars, storeVars, rateVars, sweepVars, ledgerVars>>
\* the cleanup task works on the artifacts
SweepAlone == UNCHANGED <<authVars, gateVars, jobVars, sandboxVars, storeVars, rateVars, dispatchVars, ledgerVars>>
LedgerAlone == UNCHANGED <<authVars, gateVars, jobVars, artVars, sandboxVars, storeVars, rateVars, dispatchVars, sweepVars>>

AuthNext ==
    \/ \E w \in Workers, r \in Requests, failAt \in 0..4, dbUp \in Up :
          /\ failAt # 0 => BOOLEAN \subseteq Up
          /\ VerifyStart(w, r, failAt, dbUp)
          /\ AuthAlone
    \/ \E w \in Workers, redisUp \in Up, dbUp \in Up :
          ValidateNonceExists(w, redisUp, dbUp) /\ AuthAlone
    \/ \E w \in Workers, dbUp \in Up, logUp \in Up :
          ValidateNonceDb(w, dbUp, logUp) /\ AuthAlone
    \/ \E w \in Workers, redisUp \in Up, dbUp \in Up :
          ValidateNonceSet(w, redisUp, dbUp) /\ AuthAlone
    \/ \E w \in Workers, redisUp \in Up, dbUp \in Up :
          VerifySignature(w, redisUp, dbUp) /\ AuthAlone
    \/ \E k \in NonceKeys, dbUp \in Up :
          PersistNonce(k, dbUp) /\ AuthAlone
    \/ SweepNonces /\ AuthAlone
    \/ Tick /\ AuthAlone

SpecAuth == Init /\ [][AuthNext]_vars

GateNext ==
    \/ \E w \in Callers, k \in SchemaKeys : CallSchema(w, k) /\ GateAlone
    \/ \E w \in Callers : CheckSchemaFreshness(w) /\ GateAlone
    \/ \E w \in Callers : WaitGate(w) /\ GateAlone
    \/ \E w \in Callers, redisUp \in BOOLEAN :
          GetSchemaFromRedis(w, redisUp) /\ GateAlone
    \/ \E w \in Callers : ReadSchemaFile(w) /\ GateAlone
    \/ \E w \in Callers : StatSchemaFile(w) /\ GateAlone
    \/ \E w \in Callers, redisUp \in BOOLEAN :
          CacheSchemaInRedis(w, redisUp) /\ GateAlone
    \/ \E k \in SchemaKeys : EditSchema(k) /\ GateAlone
    \/ \E k \in SchemaKeys : PeerCacheSchema(k) /\ GateAlone

SpecGate == Init /\ [][GateNext]_vars

\* The event loop runs every task that is ready, and the redis and file
\* calls a task awaits return: a call that has begun takes its next step.
\* Nothing obliges a caller to arrive, a file to be edited or a peer to act.
GateFairness ==
    \A w \in Callers :
        /\ WF_vars(CheckSchemaFreshness(w) /\ GateAlone)
        /\ WF_vars(WaitGate(w) /\ GateAlone)
        /\ WF_vars(\E redisUp \in BOOLEAN :
                      GetSchemaFromRedis(w, redisUp) /\ GateAlone)
        /\ WF_vars(ReadSchemaFile(w) /\ GateAlone)
        /\ WF_vars(StatSchemaFile(w) /\ GateAlone)
        /\ WF_vars(\E redisUp \in BOOLEAN :
                      CacheSchemaInRedis(w, redisUp) /\ GateAlone)

SpecGateFair == SpecGate /\ GateFairness

JobNext ==
    \/ \E s \in Subs, j \in JobIds, unit \in Units :
          SubmitJob(s, j, unit) /\ JobAlone
    \/ \E s \in Subs : ProcessStart(s) /\ JobAlone
    \/ \E s \in Subs, exit \in Exits : UnitExit(s, exit) /\ JobAlone
    \/ \E s \in Subs : UnitTimeout(s) /\ JobAlone
    \/ \E s \in Subs : ProcessFinish(s) /\ JobAlone

SpecJobs == Init /\ [][JobNext]_vars

\* the event loop runs every task it created and every unit ends or is
\* timed out by asyncio.wait_for: a job that was submitted takes its next
\* step.  Nothing obliges a client to submit.
JobFairness ==
    \A s \in Subs :
        /\ WF_vars(ProcessStart(s) /\ JobAlone)
        /\ WF_vars((\/ \E exit \in Exits : UnitExit(s, exit)
                    \/ UnitTimeout(s)) /\ JobAlone)
        /\ WF_vars(ProcessFinish(s) /\ JobAlone)

SpecJobsFair == SpecJobs /\ JobFairness

ArtNext ==
    \/ \E u \in Ups, o \in Uploaders, b \in Payloads, read \in ReadLists :
          UploadStart(u, o, b, read) /\ ArtAlone
    \/ \E u \in Ups : UploadChunk(u) /\ ArtAlone
    \/ \E u \in Ups, allowed \in BOOLEAN : UploadQuota(u, allowed) /\ ArtAlone
    \/ \E u \in Ups : SaveFile(u) /\ ArtAlone
    \/ \E u \in Ups, dbUp \in BOOLEAN : UploadRecord(u, dbUp) /\ ArtAlone
    \/ \E d \in Downs, id \in ArtIds, caller \in Requesters, via \in {"api", "endpoint"} :
          DownloadStart(d, id, caller, via) /\ ArtAlone
    \/ \E d \in Downs, dbUp \in BOOLEAN : DownloadMeta(d, dbUp) /\ ArtAlone
    \/ \E d \in Downs : DownloadOpen(d) /\ ArtAlone
    \/ \E d \in Downs : DownloadRead(d) /\ ArtAlone
    \/ \E id \in ArtIds, requester \in ArtUsers :
          DeleteArtifactFile(id, requester) /\ ArtAlone
    \/ \E dbUp \in BOOLEAN : DeleteArtifactRow(dbUp) /\ ArtAlone

SpecArt == Init /\ [][ArtNext]_vars

SandboxNext ==
    \/ \E r \in Runs, entry \in Entries, stream_logs \in BOOLEAN, written \in BOOLEAN :
          StartRun(r, entry, stream_logs, written) /\ SandboxAlone
    \/ \E r \in Runs, ok \in BOOLEAN : CreateContainer(r, ok) /\ SandboxAlone
    \/ \E r \in Runs, ok \in BOOLEAN : StartContainer(r, ok) /\ SandboxAlone
    \/ \E r \in Runs : ContainerExits(r) /\ SandboxAlone
    \/ \E r \in Runs, ok \in BOOLEAN : WaitContainer(r, ok) /\ SandboxAlone
    \/ \E r \in Runs, ok \in BOOLEAN : ContainerLog(r, ok) /\ SandboxAlone
    \/ \E r \in Runs, ok \in BOOLEAN : KillContainer(r, ok) /\ SandboxAlone
    \/ \E r \in Runs, ok \in BOOLEAN : DeleteContainer(r, ok) /\ SandboxAlone
    \/ \E r \in Runs : RemoveScript(r) /\ SandboxAlone
    \/ \E r \in Runs : ConsumeLogStream(r) /\ SandboxAlone

SpecSandbox == Init /\ [][SandboxNext]_vars

StoreNext ==
    \/ \E c \in Saves, a \in StoreIds, b \in Payloads : SaveStream(c, a, b) /\ StoreAlone
    \/ \E c \in Saves : AcquireUploadLock(c) /\ StoreAlone
    \/ \E c \in Saves : OpenTemp(c) /\ StoreAlone
    \/ \E c \in Saves : StreamChunk(c) /\ StoreAlone
    \/ \E c \in Saves : RenameTemp(c) /\ StoreAlone
    \/ \E c \in Saves, redisUp \in BOOLEAN : CacheFileMeta(c, redisUp) /\ StoreAlone
    \/ \E c \in Saves : CleanupTemp(c) /\ StoreAlone
    \/ \E c \in Saves : CleanupFinal(c) /\ StoreAlone

SpecStore == Init /\ [][StoreNext]_vars

\* uploads alone: no download and no delete goes on
UploadsNext ==
    \/ \E u \in Ups, o \in Uploaders, b \in Payloads, read \in ReadLists :
          UploadStart(u, o, b, read) /\ ArtAlone
    \/ \E u \in Ups : UploadChunk(u) /\ ArtAlone
    \/ \E u \in Ups, allowed \in BOOLEAN : UploadQuota(u, allowed) /\ ArtAlone
    \/ \E u \in Ups : SaveFile(u) /\ ArtAlone
    \/ \E u \in Ups, dbUp \in BOOLEAN : UploadRecord(u, dbUp) /\ ArtAlone

SpecUploads == Init /\ [][UploadsNext]_vars

\* the artifact subsystem on a store whose bytes may go bad
CorruptNext ==
    \/ ArtNext
    \/ \E id \in ArtIds : CorruptFile(id) /\ ArtAlone

SpecCorrupt == Init /\ [][CorruptNext]_vars

RateNext ==
    \/ \E c \in RateCalls, originator \in ValidOriginators, client_ip \in ClientIps,
          failAt \in 0..4 :
          CallCheckRateLimit(c, originator, client_ip, failAt) /\ RateAlone
    \/ Tick /\ AuthAlone

SpecRate == Init /\ [][RateNext]_vars

DispatchNext ==
    \/ \E d \in EndpointCalls, outcome \in AuthOutcomes :
          ResolveAuth(d, outcome) /\ DispatchAlone
    \/ \E d \in EndpointCalls, outcome \in SchemaOutcomes :
          ValidateIntentSchema(d, outcome) /\ DispatchAlone
    \/ \E d \in EndpointCalls, s \in Subs, j \in JobIds, unit \in Units :
          EndpointSubmit(d, s, j, unit) /\ DispatchAlone
    \/ \E s \in Subs : ProcessStart(s) /\ JobAlone
    \/ \E s \in Subs, exit \in Exits : UnitExit(s, exit) /\ JobAlone
    \/ \E s \in Subs : UnitTimeout(s) /\ JobAlone
    \/ \E s \in Subs : ProcessFinish(s) /\ JobAlone

SpecDispatch == Init /\ [][DispatchNext]_vars

\* lists offered as access_control["write"] at upload
WriteLists == {{}, {"system"}}
\* expires_at offered at upload: None, or the instant the server starts at
Expiries == {0, ClockStart}

SweepNext ==
    \/ \E u \in Ups, o \in Uploaders, write \in WriteLists, expires_at \in Expiries :
          UploadStartWith(u, o, <<1, 2>>, {}, write, expires_at) /\ ArtAlone
    \/ \E u \in Ups : UploadChunk(u) /\ ArtAlone
    \/ \E u \in Ups : UploadQuota(u, TRUE) /\ ArtAlone
    \/ \E u \in Ups : SaveFile(u) /\ ArtAlone
    \/ \E u \in Ups : UploadRecord(u, TRUE) /\ ArtAlone
    \/ CleanupExpiredArtifacts /\ SweepAlone
    \/ \E id \in ArtIds : CleanupDelete(id) /\ SweepAlone
    \/ DeleteArtifactRow(TRUE) /\ ArtAlone
    \/ CleanupSleep /\ SweepAlone
    \/ Tick /\ AuthAlone

\* the cleanup task is never starved: it is woken after its sleep and each
\* of its awaits returns
SweepFairness ==
    /\ WF_vars(CleanupExpiredArtifacts /\ SweepAlone)
    /\ WF_vars(\E id \in ArtIds : CleanupDelete(id) /\ SweepAlone)
    /\ WF_vars(DeleteArtifactRow(TRUE) /\ ArtAlone)
    /\ WF_vars(CleanupSleep /\ SweepAlone)

SpecSweep == Init /\ [][SweepNext]_vars /\ SweepFairness

LedgerNext ==
    \/ \E fk \in {"on", "off"}, redis \in BOOLEAN :
          LedgerInitialize(fk, redis) /\ LedgerAlone
    \/ \E a \in ArtIds, originator \in Uploaders, read \in ReadLists :
          RecordArtifact(a, originator, read, originator) /\ LedgerAlone
    \/ \E a \in ArtIds, read \in ReadLists, changed_by \in Changers, redisUp \in BOOLEAN :
          UpdateArtifactMetadata(a, read, changed_by, redisUp) /\ LedgerAlone
    \/ \E a \in ArtIds, deleted_by \in Changers, redisUp \in BOOLEAN :
          LedgerDeleteArtifact(a, deleted_by, redisUp) /\ LedgerAlone
    \/ \E d \in Dls, a \in ArtIds, requester \in {"rs_a", "rs_b", ""} :
          DownloadArtifact(d, a, requester) /\ LedgerAlone
    \/ \E d \in Dls : LedgerGetMetadata(d) /\ LedgerAlone
    \/ \E d \in Dls : DownloadCheck(d) /\ LedgerAlone

SpecLedger == Init /\ [][LedgerNext]_vars

(***************************************************************************)
(*                         CLAIMS: authentication                          *)
(***************************************************************************)
Done(w) == wk[w].pc = "done"
Ok(w) == Done(w) /\ wk[w].result = "ok"

\* The signature the header contract prescribes for a request: base64 of
\* HMAC-SHA256 under the secret of the signing input
\*   v1: METHOD \n PATH \n TIMESTAMP \n NONCE \n RAW_BODY
\*   v2: v2 \n METHOD \n PATH \n TIMESTAMP \n NONCE \n SHA256(RAW_BODY)
ContractSignature(r) ==
    LET h == r.header
        n == IF Len(h) > 4 THEN h[5] ELSE ""
    IN  B64(Hmac(QuantumSecret,
                 IF h[2] = "v1"
                 THEN <<r.method, "\n", r.path, "\n", h[4].val, "\n", n, "\n", r.body>>
                 ELSE <<"v2", "\n", r.method, "\n", r.path, "\n", h[4].val, "\n", n,
                        "\n", Sha256(r.body)>>))

WellFormed(r) == ParseAuthHeader(r.header).ok /\ StartsWithRs(r.body.originator)
CorrectlySigned(r) == WellFormed(r) /\ r.header[3] = ContractSignature(r)

\* C1: once a verify of a correctly signed, in-window envelope with an unused
\* nonce has succeeded, every verify of the identical envelope that begins
\* later is rejected.
C1_ReplayRejected ==
    \A w \in Workers : (Done(w) /\ wk[w].replay) => wk[w].result # "ok"

\* the nonce check of the call of w returned True
NoncePassed(w) ==
    \/ wk[w].pc = "signature"
    \/ Ok(w)
    \/ Done(w) /\ wk[w].error \in {"Secret retrieval failed",
                                   "Signature verification failed"}

\* C2: of the verifications that run concurrently and carry the same
\* (originator, nonce), at most one passes the nonce check.
C2_NonceOncePerPair ==
    \A v, w \in Workers :
        (v # w /\ (wk[v].overlap \/ wk[w].overlap)
              /\ NoncePassed(v) /\ NoncePassed(w))
        => KeyOf(v) # KeyOf(w)

\* C3: a request is accepted only if the signature in its header is the
\* contract signature of its own method, path, timestamp, nonce and body;
\* a request that reaches the comparison with another signature is rejected.
C3_AcceptOnlyContractSignature ==
    \A w \in Workers :
        /\ Ok(w) => wk[w].req.header[3] = ContractSignature(wk[w].req)
        /\ (Done(w) /\ WellFormed(wk[w].req) /\ ~ CorrectlySigned(wk[w].req))
              => wk[w].result = "401"

C3_Witness ==
    /\ \E w \in Workers : Ok(w) /\ CorrectlySigned(wk[w].req)
    /\ \E w \in Workers : /\ Done(w)
                          /\ wk[w].error = "Signature verification failed"
                          /\ ~ CorrectlySigned(wk[w].req)

\* C4: a request stamped more than max_clock_skew seconds before or after the
\* server time at which its timestamp is checked is never accepted.
C4_SkewRejected ==
    \A w \in Workers :
        Ok(w) => Abs(wk[w].checkedAt - wk[w].req.instant) <= max_clock_skew

\* a correctly signed request with an unused nonce, rejected for its timestamp
C4_Witness ==
    \E w \in Workers :
        /\ Done(w) /\ wk[w].error = "Timestamp outside acceptable range"
        /\ CorrectlySigned(wk[w].req)
        /\ Abs(wk[w].checkedAt - wk[w].req.instant) > max_clock_skew
        /\ redisNonce[KeyOf(w)] = 0 /\ dbNonce[KeyOf(w)] = 0


(***************************************************************************)
(*                          CLAIMS: artifacts                              *)
(***************************************************************************)
\* the caller of download d is neither the originator of the artifact nor
\* on its read list
Stranger(d) ==
    /\ down[d].meta.exists
    /\ down[d].caller # down[d].meta.originator
    /\ down[d].caller \notin down[d].meta.read

\* C5: a download by a requester who is neither the artifact's originator
\* nor on its accessControl.read list ends in the access-denied error and
\* hands out none of the artifact's bytes.
C5_StrangerDenied ==
    \A d \in Downs :
        down[d].pc = "done" /\ Stranger(d) =>
            down[d].outcome = "access_denied" /\ down[d].got = <<>>

CallersOf(k) == {w \in Callers : gc[w].key = k}

\* C7: for every schema key, the load (redis lookup, then the schema file)
\* is started at most once, the caller that runs it is the first caller
\* that asked for the key, and no caller has an answer for the key without
\* that one load having been started.
C7_LoadedOnce ==
    \A k \in SchemaKeys :
        /\ loadCount[k].redis <= 1
        /\ loadCount[k].disk <= 1
        /\ \A w \in CallersOf(k) : gc[w].role = "loader" => w = firstCaller[k]
        /\ \A w \in CallersOf(k) : gc[w].pc = "done" => loadCount[k].redis = 1

\* three callers asked for the same cold key, two of them blocked on the
\* gate, all have their answer, and the file was read once
C7_Witness ==
    \E k \in SchemaKeys :
        /\ CallersOf(k) = Callers
        /\ \A w \in Callers : gc[w].pc = "done"
        /\ Cardinality({w \in Callers : gc[w].role = "waiter"}) = 2
        /\ loadCount[k].disk = 1
        /\ \A w \in Callers : gc[w].out # NoSchema

Blocked(w) == gc[w].pc = "waiting"
Answered(w) == gc[w].pc = "done"

\* C8: a caller blocked on the gate of a key is released once the loader of
\* that key finishes (its gate is set whenever the loader has returned or
\* raised), it then returns the schema the loader returned or raises the
\* error the loader raised, never "no result found", and every blocked
\* caller is eventually answered.
C8_WaitersReleased ==
    /\ [](\A w \in Callers :
            /\ Blocked(w) /\ Answered(gc[w].gate) => gc[w].gate \in eventSet
            /\ Answered(w) /\ gc[w].role = "waiter" =>
                  /\ Answered(gc[w].gate)
                  /\ gc[w].out = gc[gc[w].gate].out
                  /\ gc[w].err = gc[gc[w].gate].err
                  /\ gc[w].err # NoResultFound)
    /\ \A w \in Callers : Blocked(w) ~> Answered(w)

\* two callers were blocked on a load that failed and both have raised the
\* loader's error
C8_Witness ==
    \E k \in SchemaKeys :
        /\ Cardinality({w \in CallersOf(k) : gc[w].role = "waiter" /\ Answered(w)}) = 2
        /\ \A w \in CallersOf(k) : gc[w].err = NotFoundError(k)

(***************************************************************************)
(*                             CLAIMS: jobs                                *)
(***************************************************************************)
Rank(status) ==
    CASE status = "none" -> 0
      [] status = "queued" -> 1
      [] status \in {"processing", "running"} -> 2
      [] OTHER -> 3
Terminal(status) == Rank(status) = 3

\* C9: the status a job id shows never moves backwards along
\* queued -> running -> {completed, failed, timedOut}, and once it is
\* terminal it never changes.
C9_StatusMonotonic ==
    [][\A j \in JobIds :
          /\ Rank(JobStatus(j)') >= Rank(JobStatus(j))
          /\ Terminal(JobStatus(j)) => JobStatus(j)' = JobStatus(j)]_vars

\* C10: a job whose execution ran into its timeout has had its unit killed
\* and ends in the state timedOut.
C10_TimeoutEndsTimedOut ==
    \A s \in Subs :
        task[s].pc = "done" /\ task[s].timedOut =>
            /\ task[s].killed
            /\ jobRec[task[s].job].status = "timedOut"

(***************************************************************************)
(*                         CLAIMS: sandbox runs                            *)
(***************************************************************************)
\* C11: after a sandbox run has returned or raised, the container it
\* created has been deleted (and so is not running) and its temporary
\* script file has been removed.
C11_RunLeavesNothing ==
    \A r \in Runs :
        run[r].pc = "done" => container[r] \in {"none", "deleted"} /\ ~scriptFile[r]

\* the execution units running at this moment
RunningUnits == {r \in Runs : container[r] = "running"}
\* a ceiling below the number of runs requested in one behaviour
ExecCeiling == MaxRuns - 1

\* C12: the number of execution units running at the same time never
\* exceeds the configured ceiling.
C12_CeilingRespected == Cardinality(RunningUnits) <= ExecCeiling

C14_OneWinner ==
    \A c1 \in Saves, c2 \in Saves :
        /\ c1 # c2 /\ sv[c1].id = sv[c2].id
        /\ sv[c1].raced /\ sv[c2].raced
        /\ sv[c1].pc = "done" /\ sv[c2].pc = "done"
        /\ sv[c1].result = "ok"
        => /\ sv[c2].result # "ok"
           /\ stFinal[sv[c1].id] = [exists |-> TRUE, data |-> sv[c1].src]

\* the ledger entries there are
LedgerEntries == {a \in ArtIds : ledger[a].exists}

C16_CorruptLoadFails ==
    \A d \in Downs :
        down[d].pc = "done" /\ down[d].outcome = "ok" =>
            Sha256(down[d].got) = down[d].meta.sha256_hash

\* C17: at every moment every artifact with a ledger entry has its bytes
\* in the store.
C17_MetadataImpliesBytes ==
    \A a \in ArtIds : ledger[a].exists => binFile[a].exists

\* what verify_signature can answer once the rate limit step is behind it
AfterRateLimit == {"Timestamp outside acceptable range", "Nonce already used or invalid",
                   "Secret retrieval failed", "Signature verification failed"}

\* C19: a verification whose rate limit step met a failing cache was not
\* refused by the rate limiter: it went on to the timestamp, nonce and
\* signature checks, and when it was rejected it was one of them that
\* rejected it.
C19_RateLimitFailsOpen ==
    \A w \in Workers :
        wk[w].rateFailed =>
            /\ wk[w].pc # "idle"
            /\ wk[w].error # "Rate limit exceeded"
            /\ (wk[w].pc = "done" /\ wk[w].result = "401" => wk[w].error \in AfterRateLimit)

\* a request accepted although the cache failed in its rate limit step
C19_Witness ==
    \E w \in Workers :
        wk[w].rateFailed /\ wk[w].pc = "done" /\ wk[w].result = "ok"

\* C20: a verification whose nonce check met a failing cache or database
\* is over, rejected for its nonce; no request whose nonce check met a
\* failure is accepted or goes on to the signature check.
C20_NonceCheckFailsClosed ==
    \A w \in Workers :
        wk[w].nonceFailed =>
            /\ wk[w].pc = "done"
            /\ wk[w].result = "401"
            /\ wk[w].error = "Nonce already used or invalid"

\* a request never accepted before, rejected because a store failed
\* during its nonce check
C20_Witness ==
    \E w \in Workers :
        /\ wk[w].nonceFailed /\ wk[w].pc = "done" /\ wk[w].result = "401"
        /\ ~ wk[w].replay

\* the calls that a working cache answered
CacheAnswered == {c \in RateCalls : rl[c].pc = "done" /\ ~ rl[c].raised}
\* those of them that passed the rate limit step for a key at an instant
PassedAt(field, key, t) ==
    {c \in CacheAnswered : rl[c].allowed /\ rl[c][field] = key /\ rl[c].at = t}

\* C18: a request the cache answered passes the rate limit step exactly
\* when the count of its originator and the count of its address are both
\* within their ceilings; a request made when one of its two counters had
\* already passed its ceiling is rejected; so within one window no more
\* requests of an originator, or of an address, pass than its ceiling.
C18_BothCountersWithinCeilings ==
    /\ \A c \in CacheAnswered :
          /\ rl[c].allowed <=> (rl[c].originator_count <= per_originator
                                  /\ rl[c].ip_count <= per_ip)
          /\ rl[c].pastCeiling => ~ rl[c].allowed
    /\ \A c \in CacheAnswered :
          /\ Cardinality(PassedAt("originator", rl[c].originator, rl[c].at))
                <= per_originator
          /\ Cardinality(PassedAt("client_ip", rl[c].client_ip, rl[c].at)) <= per_ip

\* in one window a request passed, a second was rejected at the ceiling and
\* a third, made with the counter already past its ceiling, was rejected
C18_Witness ==
    \E a, b, c \in CacheAnswered :
        /\ a < b /\ b < c
        /\ rl[a].at = rl[c].at
        /\ rl[a].allowed /\ ~ rl[b].allowed /\ ~ rl[b].pastCeiling
        /\ rl[c].pastCeiling /\ ~ rl[c].allowed

(***************************************************************************)
(*                     CLAIMS: audit trail, dispatch                       *)
(***************************************************************************)

\* the outcome an audit event should carry for a result
OutcomeOf(result) == IF result = "ok" THEN "auth_success" ELSE "auth_failure"

\* C21: every verification attempt that has ended, whatever its result,
\* has left an audit event that carries the originator of the request, its
\* endpoint, the outcome of the attempt and the hash of its payload.
C21_EveryAttemptAudited ==
    \A w \in Workers :
        wk[w].pc = "done" =>
            /\ wk[w].event.action = OutcomeOf(wk[w].result)
            /\ wk[w].event.originator = wk[w].req.body.originator
            /\ wk[w].event.endpoint = wk[w].req.path
            /\ wk[w].event.payload_hash = Sha256(wk[w].req.body)

\* the endpoint call that submitted a job record, if any
SubmitterOf(s) == {d \in EndpointCalls : ep[d].job = s}

\* C22: every job record, and so everything the executor runs, was created
\* by a request that passed signature verification and then schema
\* validation, in that order; a request that failed either of them has
\* created no job record.
C22_JobOnlyAfterBothChecks ==
    /\ \A s \in Subs :
          jobRec[s].status # "none" =>
              \E d \in SubmitterOf(s) : ep[d].passed = <<"signature", "schema">>
    /\ \A d \in EndpointCalls :
          ep[d].response \in {"401", "422", "500"} =>
              /\ ep[d].job = 0
              /\ ep[d].pc = "done"
    /\ \A s \in Subs : task[s].pc # "none" => jobRec[s].status # "none"

\* one request was refused by the verifier, one by the schema, and the job
\* of a third has run to its end
C22_Witness ==
    \E a, b, c \in EndpointCalls :
        /\ ep[a].response = "401" /\ ep[b].response = "422"
        /\ ep[c].job # 0 /\ task[ep[c].job].pc = "done"

\* C23: an artifact whose expires_at has passed is eventually gone, bytes
\* and ledger entry, the cleanup task running again and again.
C23_ExpiredEventuallyRemoved ==
    \A id \in ArtIds :
        Expired(id) ~> (~ ledger[id].exists /\ ~ binFile[id].exists)

\* the key has a nonce record: in the cache, in the database, or on its way
\* to the database
NonceRecorded(k) == redisNonce[k] # 0 \/ dbNonce[k] # 0 \/ k \in persistTasks

\* C24: a nonce record exists only for a verification that succeeded (or
\* is still on its way): a verification that was rejected, at whatever
\* step, has left the nonce of its request unused.
C24_RejectedLeavesNonceUnused ==
    \A k \in NonceKeys :
        NonceRecorded(k) =>
            \E w \in Workers :
                /\ WellFormed(wk[w].req) /\ KeyOf(w) = k
                /\ (Ok(w) \/ InFlight(w))

\* the save_stream calls inside `async with upload_lock` for an id: between
\* taking the Lock and releasing it
InUploadSection(a) ==
    {c \in Saves : sv[c].id = a /\ sv[c].pc \in {"open", "stream", "rename", "cache"}}

\* C25: of the save_stream calls for one artifact id, however many there
\* are, at most one is inside the section that writes the temp file and
\* renames it.
C25_OneInUploadSection ==
    \A a \in StoreIds : Cardinality(InUploadSection(a)) <= 1

\* the save_stream calls for an id that have streamed their last chunk
StreamedAll(a) ==
    {c \in Saves : sv[c].id = a /\ sv[c].pc \notin {"none", "locked", "open", "stream"}
                     /\ sv[c].pos = Len(sv[c].src)}

\* C26: the file under the final name of an artifact, when there is one,
\* holds exactly the bytes of one save_stream call that has streamed all of
\* its chunks.
C26_FinalFileComplete ==
    \A a \in StoreIds :
        stFinal[a].exists => \E c \in StreamedAll(a) : stFinal[a].data = sv[c].src

(***************************************************************************)
(*                      CLAIMS: jobs, continued                            *)
(***************************************************************************)

\* the execution of task s is over and did not succeed: it raised, or its
\* unit exited with a code other than 0
ExecutionFailed(s) ==
    /\ task[s].pc = "done" /\ task[s].job # 0 /\ ~ task[s].timedOut
    /\ \/ task[s].outcome = "raise"
       \/ task[s].outcome = "return" /\ task[s].value \in {"nonzero", "failed"}

\* C27: the record of a job whose execution raised or exited with a code
\* other than 0 is marked failed, never completed.
C27_FailedExecutionEndsFailed ==
    \A s \in Subs : ExecutionFailed(s) => jobRec[task[s].job].status = "failed"

\* C28: while the caller of a streaming run has not consumed the log
\* stream, the container of the run has been neither killed nor deleted
\* (the run not having timed out).
C28_StreamOutlivesFinally ==
    \A r \in Runs :
        (run[r].returned = "log_stream" /\ run[r].consumed = "none" /\ ~ run[r].timedOut)
            => (~ run[r].killed /\ container[r] # "deleted")

\* C29: a call whose in-process cached schema failed the freshness check
\* (the file's mtime is newer than the copy's) returns the schema as the
\* file has it by then, never a copy older than the file it was checked
\* against
C29_StaleCopyReloadedFromFile ==
    \A w \in Callers :
        (gc[w].pc = "done" /\ gc[w].stale > 0 /\ gc[w].out # NoSchema)
            => gc[w].out.content >= gc[w].stale

\* a job id whose record in the job maps is terminal
TerminalTracked(j) ==
    /\ completed_jobs[j] # 0
    /\ jobRec[completed_jobs[j]].status \in {"completed", "failed"}

\* C30: every job that reached a terminal state is eventually evicted
\* from the in-memory job map, so the tracked jobs do not accumulate
C30_TerminalJobsEvicted ==
    \A j \in JobIds : TerminalTracked(j) ~> (completed_jobs[j] = 0)

C32_FileCountWithinMaximum == GetFileCount <= max_files

\* the errors _parse_auth_header raises for a header it cannot take apart
MalformedErrors == {"Missing Authorization header", "Invalid Authorization header format"}

\* C33: a request whose Authorization header lacks one of the four fields
\* version, signature, timestamp, nonce after the scheme is rejected as
\* malformed
C33_MissingFieldRejected ==
    \A w \in Workers :
        (Done(w) /\ Len(wk[w].req.header) < 5)
            => (wk[w].result = "401" /\ wk[w].error \in MalformedErrors)

\* C34: a request whose header timestamp is the server's current time in
\* Unix milliseconds passes the timestamp check (and, correctly signed with
\* an unused nonce and within the rate limits, is accepted)
C34_MillisecondTimestampPasses ==
    \A w \in Workers :
        (Done(w) /\ wk[w].req.unit = "ms" /\ wk[w].checkedAt = wk[w].req.instant)
            => wk[w].error # "Timestamp outside acceptable range"

\* call c failed on an id for which call p had stored bytes before c began,
\* and no other call has touched the id
FailedOver(c, p) ==
    /\ p # c /\ sv[p].id = sv[c].id
    /\ sv[p].pc = "done" /\ sv[p].result = "ok" /\ ~ sv[p].raced
    /\ sv[c].pc = "done" /\ sv[c].result = "StorageError" /\ ~ sv[c].raced
    /\ p < c
    /\ \A e \in Saves \ {c, p} : sv[e].id # sv[c].id

\* C35: a failed upload to an artifact id that already holds stored bytes
\* leaves those bytes in place and unchanged
C35_FailedUploadKeepsBytes ==
    \A c \in Saves, p \in Saves :
        FailedOver(c, p) => stFinal[sv[c].id] = [exists |-> TRUE, data |-> sv[p].src]

\* submission s has been accepted by submit_job
Submitted(s) == task[s].pc # "none"

\* C36: every accepted submission is eventually executed and its job
\* reaches a terminal state, two submissions under one intent id included
C36_EverySubmissionFinishes ==
    \A s \in Subs : Submitted(s) ~> (jobRec[s].status \in {"completed", "failed"})

\* the call of w was answered at the gate with the failure of an earlier
\* load: it neither loaded nor waited
AnsweredWithStoredFailure(w) ==
    gc[w].pc = "done" /\ gc[w].role = "none" /\ gc[w].err # NoError

\* C37: a failed load does not poison its key: a request that arrives after
\* the failure makes a new load attempt and is not answered with the
\* stored failure
C37_FailureNotStored ==
    \A w \in Callers : ~ AnsweredWithStoredFailure(w)

\* C38: every rate-limit counter in the cache carries an expiry, also after
\* a rate-limit check in which a cache operation failed
C38_EveryCounterExpires ==
    \A k \in RateKeys : rate[k].n > 0 => rate[k].exp # 0

C40_NoAcceptanceAfterExpiry ==
    \A v \in Workers, w \in Workers :
        (/\ v # w /\ Ok(v) /\ Done(w) /\ wk[w].req = wk[v].req
         /\ wk[w].checkedAt >= wk[v].checkedAt + nonce_ttl)
            => wk[w].result # "ok"
====
